---- MODULE Spec2Model ----
(* Riivolution patch application (DiscIO/RiivolutionPatcher.cpp) and the      *)
(* per-frame patch engine (Core/PatchEngine.cpp) as state machines.           *)
(*                                                                            *)
(* SpecOverlay : one File node under repeated ApplyPatchToFile calls.         *)
(* SpecMemory  : emulated RAM under the Memory entries of a patch.            *)
(* SpecFST     : ApplyPatchToFST on the virtual file tree of a disc.          *)
(* SpecResolve : repeated FindFileNodeInFST calls on one tree.                *)
(* SpecOrder   : File entries applied one after the other to one file.        *)
(* SpecParse   : ParseString on patch documents.                              *)
(* SpecDOL     : ApplyPatchToDOL on the node of the executable.               *)
(* SpecFolder  : ApplyPatchToFST with one Folder entry.                       *)
(* SpecShutdown: Shutdown and Reload between the frame passes.                *)
(* SpecPatches : one frame pass over on-frame patches of several entries.     *)
(* SpecLine    : SerializeLine and DeserializeLine on entries and lines.      *)
(* SpecFrame   : ApplyFramePatches on the CPU thread against AddMemoryPatch   *)
(*               and RemoveMemoryPatch on a management thread.                *)
EXTENDS Integers, Sequences, FiniteSets, TLC

VARIABLES
    node,       \* the FSTBuilderNode under patch: [m_size, m_content]
    last,       \* the last ApplyPatchToFile call: its arguments and the size before it
    memory,     \* emulated memory: address -> byte
    mp,         \* the Memory entry ApplyPatchToMemory is at, and what applying it did
    s_on_frame,         \* PatchEngine: the on-frame patches
    s_on_frame_memory,  \* PatchEngine: the vector of active memory-patch indices
    mgmt,       \* the management thread: idle, or inside AddMemoryPatch/RemoveMemoryPatch
    fr,         \* the CPU thread: where ApplyFramePatches is, and what its last call did
    fst,        \* the virtual file tree ApplyPatchToFST works on
    fp,         \* the patch ApplyPatchToFST was called with, and the tree before the call
    rs,         \* FindFileNodeInFST calls on fst: the nodes returned so far and the last call
    ps,         \* the last ParseString call: its arguments and what it returned
    s_speed_hacks,\* static std::map<u32, int> s_speed_hacks, as address/cycles pairs
    ln          \* the line SerializeLine wrote or DeserializeLine read, and the result

vars == <<node, last, memory, mp, s_on_frame, s_on_frame_memory, mgmt, fr, fst, fp, rs, ps, s_speed_hacks, ln>>

-----------------------------------------------------------------------------
(* Bounds of the overlay model *)
MaxFileSize == 3     \* no call makes the virtual file longer than this
MaxExternalSize == 1 \* sizes of the external files

(* The host files a patch can name: one file of each size, named by its size, *)
(* and a path that does not open.                                             *)
Missing == MaxExternalSize + 1
ExternalNames == 0..Missing

Max(a, b) == IF a >= b THEN a ELSE b

-----------------------------------------------------------------------------
(* BuilderContentSource {m_offset, m_size, m_source}; m_source is a variant   *)
(* of ContentFile{m_offset, m_filename}, const u8*, ContentVolume{m_offset}   *)
(* and ContentFixedByte{m_byte}. The pointer variant keeps its address in     *)
(* m_offset.                                                                  *)
ContentFile(offset, filename) ==
    [type |-> "ContentFile", m_offset |-> offset, m_filename |-> filename, m_byte |-> 0]

ContentFixedByte(byte) ==
    [type |-> "ContentFixedByte", m_offset |-> 0, m_filename |-> Missing, m_byte |-> byte]

ContentVolume(offset) ==
    [type |-> "ContentVolume", m_offset |-> offset, m_filename |-> Missing, m_byte |-> 0]

ContentMemory(ptr) ==
    [type |-> "u8ptr", m_offset |-> ptr, m_filename |-> Missing, m_byte |-> 0]

BuilderContentSource(offset, size, source) ==
    [m_offset |-> offset, m_size |-> size, m_source |-> source]

FSTBuilderFile(size, content) == [m_size |-> size, m_content |-> content]

(* 'last' before any call *)
NoCall == [op |-> "none", old_size |-> 0, name |-> Missing, offset |-> 0, length |-> 0,
           resize |-> FALSE]

OverlayUnused ==
    /\ node = FSTBuilderFile(0, <<>>)
    /\ last = NoCall

(* vector::insert(begin + (i - 1), x) and vector::erase(begin + (i - 1)),     *)
(* positions counted from 1                                                   *)
InsertAt(c, i, x) == SubSeq(c, 1, i - 1) \o <<x>> \o SubSeq(c, i, Len(c))

EraseAt(c, i) == SubSeq(c, 1, i - 1) \o SubSeq(c, i + 1, Len(c))

-----------------------------------------------------------------------------
(* SplitAt: 'before' and 'after' are two copies of one source; yields the     *)
(* pair after the split at split_at.                                          *)
SplitAtNoAdvance(before, after, split_at) ==
    LET start == before.m_offset
        end == start + before.m_size
        b == [before EXCEPT !.m_size = split_at - start]
    IN  <<b, [after EXCEPT !.m_offset = @ + b.m_size, !.m_size = end - split_at]>>

SplitAt(before, after, split_at) ==
    LET start == before.m_offset
        size == before.m_size
        end == start + size
        b == [before EXCEPT !.m_size = split_at - start]
        a == [after EXCEPT !.m_offset = @ + b.m_size,
                           !.m_size = end - split_at,
                           !.m_source = IF @.type \in {"ContentFile", "u8ptr", "ContentVolume"}
                                        THEN [@ EXCEPT !.m_offset = @ + b.m_size]
                                        ELSE @]
    IN  <<b, a>>

(* content.insert(content.begin() + i + 1, content[i]); SplitAt(&content[i],  *)
(* &content[i + 1], at)                                                       *)
InsertSplit(c, i, at) ==
    LET copied == InsertAt(c, i + 1, c[i])
        halves == SplitAt(copied[i], copied[i + 1], at)
    IN  [copied EXCEPT ![i] = halves[1], ![i + 1] = halves[2]]

(* The first loop of the overwrite branch: split sources at patch_start and   *)
(* patch_end.                                                                 *)
RECURSIVE SplitLoop(_, _, _, _)
SplitLoop(c, i, patch_start, patch_end) ==
    IF i > Len(c) THEN c
    ELSE LET source_start == c[i].m_offset
             source_end == source_start + c[i].m_size
         IN  IF patch_start > source_start /\ patch_start < source_end
             THEN SplitLoop(InsertSplit(c, i, patch_start), i + 1, patch_start, patch_end)
             ELSE IF patch_end > source_start /\ patch_end < source_end
             THEN SplitLoop(InsertSplit(c, i, patch_end), i + 1, patch_start, patch_end)
             ELSE SplitLoop(c, i + 1, patch_start, patch_end)

(* while (i < content.size() && patch_end >= content[i].m_offset +            *)
(* content[i].m_size) content.erase(content.begin() + i);                     *)
RECURSIVE EraseWhileStrict(_, _, _)
EraseWhileStrict(c, i, patch_end) ==
    IF i <= Len(c) /\ patch_end > c[i].m_offset + c[i].m_size
    THEN EraseWhileStrict(EraseAt(c, i), i, patch_end)
    ELSE c

RECURSIVE EraseWhile(_, _, _)
EraseWhile(c, i, patch_end) ==
    IF i <= Len(c) /\ patch_end >= c[i].m_offset + c[i].m_size
    THEN EraseWhile(EraseAt(c, i), i, patch_end)
    ELSE c

(* The second loop: discard the sources the patch covers, remember where.     *)
RECURSIVE DiscardLoop(_, _, _, _, _)
DiscardLoop(c, i, insert_where, patch_start, patch_end) ==
    IF i > Len(c) THEN [content |-> c, insert_where |-> insert_where]
    ELSE IF patch_start = c[i].m_offset
         THEN DiscardLoop(EraseWhile(c, i, patch_end), i + 1, i, patch_start, patch_end)
         ELSE DiscardLoop(c, i + 1, insert_where, patch_start, patch_end)

(* The patch data: the external file, zero-padded when the patch is longer.   *)
PatchSourcesNoPadding(patch_start, patch_size, external_filesize, external_filename) ==
    <<BuilderContentSource(patch_start, patch_size, ContentFile(0, external_filename))>>

PatchSources(patch_start, patch_size, external_filesize, external_filename) ==
    IF patch_size > external_filesize
    THEN <<BuilderContentSource(patch_start, external_filesize,
                                ContentFile(0, external_filename)),
           BuilderContentSource(patch_start + external_filesize,
                                patch_size - external_filesize, ContentFixedByte(0))>>
    ELSE <<BuilderContentSource(patch_start, patch_size, ContentFile(0, external_filename))>>

(* resize ? patch_end : std::max(file_node->m_size, patch_end)                *)
TargetFilesizeNeverShrinks(resize, m_size, patch_end) == Max(m_size, patch_end)

TargetFilesize(resize, m_size, patch_end) ==
    IF resize THEN patch_end ELSE Max(m_size, patch_end)

(* Drop any source past the new end of the file.                              *)
RECURSIVE DropPastEnd(_, _)
DropPastEnd(c, m_size) ==
    IF Len(c) > 0 /\ c[Len(c)].m_offset >= m_size
    THEN DropPastEnd(SubSeq(c, 1, Len(c) - 1), m_size)
    ELSE c

(* File::IOFile f(external_filename, "rb"): whether it opened, and GetSize()  *)
IOFile(external_filename) ==
    IF external_filename = Missing THEN [ok |-> FALSE, size |-> 0]
    ELSE [ok |-> TRUE, size |-> external_filename]

(* ApplyPatchToFile once the external file is open *)
PatchOpenedFile(file_node, external_filename, external_filesize, file_patch_offset, file_patch_length, resize) ==
    LET content == file_node.m_content
        patch_start == file_patch_offset
        patch_size == IF file_patch_length = 0 THEN external_filesize ELSE file_patch_length
        patch_end == patch_start + patch_size
        target_filesize == TargetFilesize(resize, file_node.m_size, patch_end)
        patched ==
            IF patch_start >= file_node.m_size
            THEN (IF patch_start > file_node.m_size
                  THEN content \o <<BuilderContentSource(file_node.m_size,
                                                         patch_start - file_node.m_size,
                                                         ContentFixedByte(0))>>
                  ELSE content)
                 \o PatchSources(patch_start, patch_size, external_filesize, external_filename)
            ELSE LET split == SplitLoop(content, 1, patch_start, patch_end)
                     d == DiscardLoop(split, 1, 1, patch_start, patch_end)
                 IN  SubSeq(d.content, 1, d.insert_where - 1)
                       \o PatchSources(patch_start, patch_size, external_filesize,
                                       external_filename)
                       \o SubSeq(d.content, d.insert_where, Len(d.content))
    IN  FSTBuilderFile(target_filesize, DropPastEnd(patched, target_filesize))

ApplyPatchToFileNoOpenCheck(file_node, external_filename, file_patch_offset, file_patch_length, resize) ==
    PatchOpenedFile(file_node, external_filename, IOFile(external_filename).size,
                    file_patch_offset, file_patch_length, resize)

ApplyPatchToFile(file_node, external_filename, file_patch_offset, file_patch_length, resize) ==
    LET f == IOFile(external_filename)
    IN  IF ~f.ok THEN file_node
        ELSE PatchOpenedFile(file_node, external_filename, f.size, file_patch_offset,
                             file_patch_length, resize)

-----------------------------------------------------------------------------
(* The virtual file tree: FindFileNodeInFST, FindFilenameNodesInFST and      *)
(* ApplyPatchToFST. Strings are sequences of characters.                     *)

(* FSTBuilderNode {m_filename, m_size, m_content}; m_content is a variant of  *)
(* a file's content sources and a folder's children, is_file tells which      *)
FSTBuilderNode(filename, size, is_file, content) ==
    [m_filename |-> filename, m_size |-> size, is_file |-> is_file, m_content |-> content]

(* a FSTBuilderNode*: the positions leading to the node, <<>> for nullptr *)
nullptr == <<>>

(* path.substr(1) while path[0] == '/' *)
RECURSIVE StripSlashes(_)
StripSlashes(path) ==
    IF path # <<>> /\ Head(path) = "/" THEN StripSlashes(Tail(path)) ELSE path

(* path.find('/'): the position of the first separator, 0 for npos *)
FindSeparator(path) ==
    IF \E i \in 1..Len(path) : path[i] = "/"
    THEN CHOOSE i \in 1..Len(path) : path[i] = "/" /\ \A j \in 1..(i - 1) : path[j] # "/"
    ELSE 0

(* std::find_if that looks at the first node only *)
FindNamedFirstOnly(nodes, name) ==
    IF nodes # <<>> /\ nodes[1].m_filename = name THEN 1 ELSE 0

(* std::find_if that never finds *)
FindNamedNever(nodes, name) == 0

(* std::find_if over the nodes of one directory, 0 for end() *)
FindNamed(nodes, name) ==
    IF \E i \in 1..Len(nodes) : nodes[i].m_filename = name
    THEN CHOOSE i \in 1..Len(nodes) :
            nodes[i].m_filename = name /\ \A j \in 1..(i - 1) : nodes[j].m_filename # name
    ELSE 0

(* FindFileNodeInFST: the tree it leaves and the node it returns *)
RECURSIVE FindFileNodeInFST(_, _, _)
FindFileNodeInFST(full_path, nodes, create_if_not_exists) ==
    LET path == StripSlashes(full_path)
        path_separator == FindSeparator(path)
        is_file == path_separator = 0
        name == IF is_file THEN path ELSE SubSeq(path, 1, path_separator - 1)
        rest == SubSeq(path, path_separator + 1, Len(path))
        it == FindNamed(nodes, name)
    IN  IF it = 0
        THEN IF ~create_if_not_exists THEN [fst |-> nodes, node |-> nullptr]
             ELSE IF is_file
             THEN [fst |-> Append(nodes, FSTBuilderNode(name, 0, TRUE, <<>>)),
                   node |-> <<Len(nodes) + 1>>]
             ELSE LET r == FindFileNodeInFST(rest, <<>>, TRUE)
                  IN  [fst |-> Append(nodes, FSTBuilderNode(name, 0, FALSE, r.fst)),
                       node |-> IF r.node = nullptr THEN nullptr
                                ELSE <<Len(nodes) + 1>> \o r.node]
        ELSE IF is_file # nodes[it].is_file THEN [fst |-> nodes, node |-> nullptr]
        ELSE IF is_file THEN [fst |-> nodes, node |-> <<it>>]
        ELSE LET r == FindFileNodeInFST(rest, nodes[it].m_content, create_if_not_exists)
             IN  [fst |-> [nodes EXCEPT ![it].m_content = r.fst],
                  node |-> IF r.node = nullptr THEN nullptr ELSE <<it>> \o r.node]

(* FindFilenameNodesInFST, were it to look at one directory only *)
RECURSIVE FindFilenameNodesInDirectory(_, _, _, _)
FindFilenameNodesInDirectory(filename, nodes, at, i) ==
    IF i > Len(nodes) THEN <<>>
    ELSE (IF nodes[i].is_file /\ nodes[i].m_filename = filename THEN <<Append(at, i)>>
          ELSE <<>>)
         \o FindFilenameNodesInDirectory(filename, nodes, at, i + 1)

(* FindFilenameNodesInFST: the file nodes of that name, in the order found;   *)
(* 'at' leads to the directory 'nodes', i is the position the loop is at      *)
RECURSIVE FindFilenameNodesInFST(_, _, _, _)
FindFilenameNodesInFST(filename, nodes, at, i) ==
    IF i > Len(nodes) THEN <<>>
    ELSE (IF ~nodes[i].is_file
          THEN FindFilenameNodesInFST(filename, nodes[i].m_content, Append(at, i), 1)
          ELSE IF nodes[i].m_filename = filename THEN <<Append(at, i)>>
          ELSE <<>>)
         \o FindFilenameNodesInFST(filename, nodes, at, i + 1)

(* ApplyPatchToFile on the node a pointer leads to *)
RECURSIVE PatchNodeAt(_, _, _, _, _, _)
PatchNodeAt(nodes, at, external_filename, offset, length, resize) ==
    IF Len(at) = 1
    THEN LET r == ApplyPatchToFile(FSTBuilderFile(nodes[at[1]].m_size, nodes[at[1]].m_content),
                                   external_filename, offset, length, resize)
         IN  [nodes EXCEPT ![at[1]].m_size = r.m_size, ![at[1]].m_content = r.m_content]
    ELSE [nodes EXCEPT ![at[1]].m_content =
              PatchNodeAt(@, Tail(at), external_filename, offset, length, resize)]

(* ::File::FSTEntry, and what ::File::ScanDirectoryTree finds in the external *)
(* directories of the model; a directory that does not exist has no children  *)
FSTEntry(isDirectory, virtualName, physicalName, children) ==
    [isDirectory |-> isDirectory, virtualName |-> virtualName,
     physicalName |-> physicalName, children |-> children]

ExternalDirectories == {"missing", "flat", "deep"}

ScanDirectoryTree(directory, recursive) ==
    IF directory = "flat"
    THEN FSTEntry(TRUE, <<>>, Missing, <<FSTEntry(FALSE, <<"a">>, 1, <<>>)>>)
    ELSE IF directory = "deep"
    THEN FSTEntry(TRUE, <<>>, Missing,
                  <<FSTEntry(TRUE, <<"d">>, Missing,
                             IF recursive THEN <<FSTEntry(FALSE, <<"a">>, 1, <<>>)>> ELSE <<>>),
                    FSTEntry(FALSE, <<"b">>, 0, <<>>)>>)
    ELSE FSTEntry(TRUE, <<>>, Missing, <<>>)

(* ApplyFolderPatchToFST, were it to give up at the first external file      *)
(* whose path yields no node                                                  *)
RECURSIVE ApplyFolderPatchToFSTUntilFailure(_, _, _, _)
ApplyFolderPatchToFSTUntilFailure(folder, children, disc_path, nodes) ==
    IF children = <<>> THEN nodes
    ELSE LET child == Head(children)
             child_disc_path == disc_path \o <<"/">> \o child.virtualName
             r == FindFileNodeInFST(child_disc_path, nodes, folder.m_create)
         IN  IF child.isDirectory
             THEN LET inner == ApplyFolderPatchToFSTUntilFailure(folder, child.children,
                                                                 child_disc_path, nodes)
                  IN  IF inner = nodes /\ child.children # <<>> THEN nodes
                      ELSE ApplyFolderPatchToFSTUntilFailure(folder, Tail(children), disc_path,
                                                             inner)
             ELSE IF r.node = nullptr THEN nodes
             ELSE ApplyFolderPatchToFSTUntilFailure(
                      folder, Tail(children), disc_path,
                      PatchNodeAt(r.fst, r.node, child.physicalName, 0, folder.m_length,
                                  folder.m_resize))

(* ApplyFolderPatchToFST, over the children still to visit *)
RECURSIVE ApplyFolderPatchToFST(_, _, _, _)
ApplyFolderPatchToFST(folder, children, disc_path, nodes) ==
    IF children = <<>> THEN nodes
    ELSE LET child == Head(children)
             child_disc_path == disc_path \o <<"/">> \o child.virtualName
             r == FindFileNodeInFST(child_disc_path, nodes, folder.m_create)
         IN  ApplyFolderPatchToFST(
                 folder, Tail(children), disc_path,
                 IF child.isDirectory
                 THEN ApplyFolderPatchToFST(folder, child.children, child_disc_path, nodes)
                 ELSE IF r.node = nullptr THEN r.fst
                 ELSE PatchNodeAt(r.fst, r.node, child.physicalName, 0, folder.m_length,
                                  folder.m_resize))

RECURSIVE PatchNodes(_, _, _, _)
PatchNodes(nodes, found, folder, child) ==
    IF found = <<>> THEN nodes
    ELSE PatchNodes(PatchNodeAt(nodes, Head(found), child.physicalName, 0, folder.m_length,
                                folder.m_resize),
                    Tail(found), folder, child)

(* a Folder entry without a disc path, were it handled like one whose disc   *)
(* path is the root                                                           *)
ApplyUnknownFolderPatchToFSTByPath(folder, children, nodes) ==
    ApplyFolderPatchToFST(folder, children, <<>>, nodes)

(* ApplyUnknownFolderPatchToFST, over the children still to visit *)
RECURSIVE ApplyUnknownFolderPatchToFST(_, _, _)
ApplyUnknownFolderPatchToFST(folder, children, nodes) ==
    IF children = <<>> THEN nodes
    ELSE LET child == Head(children)
         IN  ApplyUnknownFolderPatchToFST(
                 folder, Tail(children),
                 IF child.isDirectory
                 THEN ApplyUnknownFolderPatchToFST(folder, child.children, nodes)
                 ELSE PatchNodes(nodes, FindFilenameNodesInFST(child.virtualName, nodes, <<>>, 1),
                                 folder, child))

(* the first loop of ApplyPatchToFST, were it to end at the first entry whose *)
(* path yields no node                                                        *)
RECURSIVE ApplyFilePatchesUntilFailure(_, _)
ApplyFilePatchesUntilFailure(files, nodes) ==
    IF files = <<>> THEN nodes
    ELSE LET file == Head(files)
             r == FindFileNodeInFST(file.m_disc, nodes, file.m_create)
         IN  IF r.node = nullptr THEN r.fst
             ELSE ApplyFilePatchesUntilFailure(
                      Tail(files),
                      PatchNodeAt(r.fst, r.node, file.m_external, file.m_offset,
                                  file.m_length, file.m_resize))

(* the first loop of ApplyPatchToFST, were it to go from the last entry to    *)
(* the first                                                                  *)
RECURSIVE ApplyFilePatchesBackwards(_, _)
ApplyFilePatchesBackwards(files, nodes) ==
    IF files = <<>> THEN nodes
    ELSE LET file == Head(files)
             before == ApplyFilePatchesBackwards(Tail(files), nodes)
             r == FindFileNodeInFST(file.m_disc, before, file.m_create)
         IN  IF r.node = nullptr THEN r.fst
             ELSE PatchNodeAt(r.fst, r.node, file.m_external, file.m_offset, file.m_length,
                              file.m_resize)

(* the first loop of ApplyPatchToFST *)
RECURSIVE ApplyFilePatches(_, _)
ApplyFilePatches(files, nodes) ==
    IF files = <<>> THEN nodes
    ELSE LET file == Head(files)
             r == FindFileNodeInFST(file.m_disc, nodes, file.m_create)
         IN  ApplyFilePatches(Tail(files),
                              IF r.node = nullptr THEN r.fst
                              ELSE PatchNodeAt(r.fst, r.node, file.m_external, file.m_offset,
                                               file.m_length, file.m_resize))

(* the second loop of ApplyPatchToFST *)
RECURSIVE ApplyFolderPatches(_, _)
ApplyFolderPatches(folders, nodes) ==
    IF folders = <<>> THEN nodes
    ELSE LET folder == Head(folders)
             external_files == ScanDirectoryTree(folder.m_external, folder.m_recursive)
         IN  ApplyFolderPatches(Tail(folders),
                                IF folder.m_disc = <<>>
                                THEN ApplyUnknownFolderPatchToFST(folder, external_files.children,
                                                                  nodes)
                                ELSE ApplyFolderPatchToFST(folder, external_files.children,
                                                           folder.m_disc, nodes))

(* ApplyPatchToFST, were its loops in the other order *)
ApplyPatchToFSTFoldersFirst(patch, nodes) ==
    ApplyFilePatches(patch.m_file_patches, ApplyFolderPatches(patch.m_folder_patches, nodes))

ApplyPatchToFST(patch, nodes) ==
    ApplyFolderPatches(patch.m_folder_patches, ApplyFilePatches(patch.m_file_patches, nodes))

(* 'fp' before any call; 'document' is for the children of the patch element  *)
(* the patch was read from, where the model has them                          *)
NoPatch == [m_file_patches |-> <<>>, m_folder_patches |-> <<>>]
NotCalled == [called |-> FALSE, patch |-> NoPatch, before |-> <<>>, document |-> <<>>]

FSTUnused ==
    /\ fst = <<>>
    /\ fp = NotCalled

(* the paths FindFileNodeInFST is called with *)
ResolvePaths ==
    {<<"a">>, <<"/", "a">>, <<"/", "b">>, <<"d">>, <<"d", "/", "a">>, <<"d", "/", "/", "b">>,
     <<"n", "/", "a">>}

(* 'rs' before any call: no path has been returned a node by create=true *)
NoResolution ==
    [called |-> FALSE, path |-> <<>>, create |-> FALSE, node |-> nullptr, prior |-> nullptr,
     before |-> <<>>]
NotResolved == [found |-> [p \in ResolvePaths |-> nullptr], last |-> NoResolution]

ResolveUnused == rs = NotResolved

-----------------------------------------------------------------------------
(* ParseString: the document is the tree pugixml gives for the text. An      *)
(* attribute that is absent reads as the default of the accessor, as_string  *)
(* of an absent attribute is the empty string.                               *)

MaxPieces == 3       \* pieces a string attribute under substitution is made of
MaxHexLen == 4       \* characters of a byte-string attribute

StartsWith(sv, prefix) ==
    Len(prefix) <= Len(sv) /\ SubSeq(sv, 1, Len(prefix)) = prefix

(* sv.substr(pos) and sv.substr(pos, count), pos counted from 0 *)
Substr(sv, pos) == SubSeq(sv, pos + 1, Len(sv))
SubstrN(sv, pos, count) == SubSeq(sv, pos + 1, pos + count)

TokenGameId == <<"{", "$", "_", "_", "g", "a", "m", "e", "i", "d", "}">>
TokenRegion == <<"{", "$", "_", "_", "r", "e", "g", "i", "o", "n", "}">>
TokenMaker == <<"{", "$", "_", "_", "m", "a", "k", "e", "r", "}">>

(* the replacements array of replace_variables, in its order *)
Replacements(game_id) ==
    <<[first |-> TokenGameId, second |-> SubstrN(game_id, 0, 3)],
      [first |-> TokenRegion, second |-> SubstrN(game_id, 3, 1)],
      [first |-> TokenMaker, second |-> SubstrN(game_id, 4, 2)]>>

(* replace_variables that substitutes again in what it has produced *)
RECURSIVE ReplaceVariablesRescanning(_, _)
ReplaceVariablesRescanning(sv, game_id) ==
    LET replacements == Replacements(game_id)
        matching == {k \in 1..Len(replacements) : StartsWith(sv, replacements[k].first)}
        r == replacements[CHOOSE k \in matching : \A j \in matching : k <= j]
    IN  IF sv = <<>> THEN <<>>
        ELSE IF matching # {}
        THEN ReplaceVariablesRescanning(r.second \o Substr(sv, Len(r.first)), game_id)
        ELSE <<sv[1]>> \o ReplaceVariablesRescanning(Substr(sv, 1), game_id)

(* the lambda replace_variables *)
RECURSIVE ReplaceVariables(_, _)
ReplaceVariables(sv, game_id) ==
    LET replacements == Replacements(game_id)
        matching == {k \in 1..Len(replacements) : StartsWith(sv, replacements[k].first)}
        r == replacements[CHOOSE k \in matching : \A j \in matching : k <= j]
    IN  IF sv = <<>> THEN <<>>
        ELSE IF matching # {}
        THEN r.second \o ReplaceVariables(Substr(sv, Len(r.first)), game_id)
        ELSE <<sv[1]>> \o ReplaceVariables(Substr(sv, 1), game_id)

(* TryParse(pair, &tmp, 16) of two characters: two hex digits give a byte *)
HexDigits == {"0", "1", "a"}
HexDigitValue(c) == IF c = "0" THEN 0 ELSE IF c = "1" THEN 1 ELSE 10
TryParse(pair) ==
    IF Len(pair) = 2 /\ pair[1] \in HexDigits /\ pair[2] \in HexDigits
    THEN [ok |-> TRUE, value |-> 16 * HexDigitValue(pair[1]) + HexDigitValue(pair[2])]
    ELSE [ok |-> FALSE, value |-> 0]

(* the loop of read_hex_string, were it to return what it has decoded when a  *)
(* pair does not parse                                                        *)
RECURSIVE ReadPairsKeepingPrefix(_, _)
ReadPairsKeepingPrefix(sv, result) ==
    IF sv = <<>> THEN result
    ELSE IF ~TryParse(SubstrN(sv, 0, 2)).ok THEN result
    ELSE ReadPairsKeepingPrefix(Substr(sv, 2), Append(result, TryParse(SubstrN(sv, 0, 2)).value))

(* the loop of read_hex_string *)
RECURSIVE ReadPairs(_, _)
ReadPairs(sv, result) ==
    IF sv = <<>> THEN result
    ELSE IF ~TryParse(SubstrN(sv, 0, 2)).ok THEN <<>>
    ELSE ReadPairs(Substr(sv, 2), Append(result, TryParse(SubstrN(sv, 0, 2)).value))

(* the lambda read_hex_string *)
ReadHexString(sv) ==
    IF Len(sv) % 2 = 1 THEN <<>>
    ELSE ReadPairs(IF StartsWith(sv, <<"0", "x">>) THEN Substr(sv, 2) ELSE sv, <<>>)

(* xml_attribute: absent, or its text as as_string and as_int/as_uint/as_bool *)
(* read it                                                                    *)
Absent == [present |-> FALSE, as_string |-> <<>>, as_int |-> 0, as_bool |-> FALSE]
StringAttribute(text) == [present |-> TRUE, as_string |-> text, as_int |-> 0, as_bool |-> FALSE]
IntAttribute(n) == [present |-> TRUE, as_string |-> <<>>, as_int |-> n, as_bool |-> FALSE]
BoolAttribute(b) == [present |-> TRUE, as_string |-> <<>>, as_int |-> 0, as_bool |-> b]

AsString(attribute) == IF attribute.present THEN attribute.as_string ELSE <<>>
AsInt(attribute, default) == IF attribute.present THEN attribute.as_int ELSE default
AsBool(attribute, default) == IF attribute.present THEN attribute.as_bool ELSE default

(* CheckRegion that accepts any list *)
CheckRegionAnything(xml_regions, game_region) == TRUE

(* CheckRegion over the type attributes of the region children *)
CheckRegion(xml_regions, game_region) ==
    \/ xml_regions = <<>>
    \/ \E i \in 1..Len(xml_regions) : AsString(xml_regions[i]) = game_region

(* the loop over id.attributes(): TRUE when no attribute mismatches *)
RECURSIVE IdAttributesMatch(_, _, _, _)
IdAttributesMatch(attributes, game_id, revision, disc_number) ==
    IF attributes = <<>> THEN TRUE
    ELSE LET attribute == Head(attributes).value
             attribute_name == Head(attributes).name
         IN  IF attribute_name = "game" /\ ~StartsWith(game_id, AsString(attribute)) THEN FALSE
             ELSE IF attribute_name = "developer" /\ SubstrN(game_id, 4, 2) # AsString(attribute)
             THEN FALSE
             ELSE IF attribute_name = "disc" /\ disc_number # AsInt(attribute, -1) THEN FALSE
             ELSE IF attribute_name = "version" /\ revision # AsInt(attribute, -1) THEN FALSE
             ELSE IdAttributesMatch(Tail(attributes), game_id, revision, disc_number)

(* the attributes ParseString reads from a child of a patch element *)
NoAttributes ==
    [disc |-> Absent, external |-> Absent, valuefile |-> Absent, value |-> Absent,
     original |-> Absent, resize |-> Absent, create |-> Absent, recursive |-> Absent,
     clone |-> Absent, ocarina |-> Absent, search |-> Absent, offset |-> Absent,
     length |-> Absent, align |-> Absent]

XmlNode(name, attributes) == [name |-> name, attributes |-> attributes]

(* Patch with nothing but its id and root *)
EmptyPatch(id, root) ==
    [m_id |-> id, m_root |-> root, m_file_patches |-> <<>>, m_folder_patches |-> <<>>,
     m_savegame_patches |-> <<>>, m_memory_patches |-> <<>>]

(* the loop over patch_node.children() *)
RECURSIVE ParsePatchChildren(_, _, _)
ParsePatchChildren(children, patch, game_id) ==
    IF children = <<>> THEN patch
    ELSE LET patch_name == Head(children).name
             a == Head(children).attributes
             next ==
                 IF patch_name = "file"
                 THEN [patch EXCEPT !.m_file_patches = Append(@,
                          [m_disc |-> ReplaceVariables(AsString(a.disc), game_id),
                           m_external |-> ReplaceVariables(AsString(a.external), game_id),
                           m_resize |-> AsBool(a.resize, TRUE),
                           m_create |-> AsBool(a.create, FALSE),
                           m_offset |-> AsInt(a.offset, 0),
                           m_length |-> AsInt(a.length, 0)])]
                 ELSE IF patch_name = "folder"
                 THEN [patch EXCEPT !.m_folder_patches = Append(@,
                          [m_disc |-> ReplaceVariables(AsString(a.disc), game_id),
                           m_external |-> ReplaceVariables(AsString(a.external), game_id),
                           m_resize |-> AsBool(a.resize, TRUE),
                           m_create |-> AsBool(a.create, FALSE),
                           m_recursive |-> AsBool(a.recursive, TRUE),
                           m_length |-> AsInt(a.length, 0)])]
                 ELSE IF patch_name = "savegame"
                 THEN [patch EXCEPT !.m_savegame_patches = Append(@,
                          [m_external |-> ReplaceVariables(AsString(a.external), game_id),
                           m_clone |-> AsBool(a.clone, TRUE)])]
                 ELSE IF patch_name = "memory"
                 THEN [patch EXCEPT !.m_memory_patches = Append(@,
                          [m_offset |-> AsInt(a.offset, 0),
                           m_value |-> ReadHexString(AsString(a.value)),
                           m_valuefile |-> ReplaceVariables(AsString(a.valuefile), game_id),
                           m_original |-> ReadHexString(AsString(a.original)),
                           m_ocarina |-> AsBool(a.ocarina, FALSE),
                           m_search |-> AsBool(a.search, FALSE),
                           m_align |-> AsInt(a.align, 1)])]
                 ELSE patch
         IN  ParsePatchChildren(Tail(children), next, game_id)

(* the loop over wiidisc.children("patch") *)
RECURSIVE ParsePatches(_, _)
ParsePatches(patches, game_id) ==
    IF patches = <<>> THEN <<>>
    ELSE <<ParsePatchChildren(Head(patches).children,
                              EmptyPatch(AsString(Head(patches).id),
                                         ReplaceVariables(AsString(Head(patches).root),
                                                          game_id)),
                              game_id)>>
           \o ParsePatches(Tail(patches), game_id)

(* std::optional<Disc>: std::nullopt, or a Disc *)
NoDisc == [m_version |-> 0, m_root |-> <<>>, m_patches |-> <<>>]
nullopt == [has_value |-> FALSE, disc |-> NoDisc]
Optional(disc) == [has_value |-> TRUE, disc |-> disc]

(* ParseString that takes a document of any version *)
ParseStringAnyVersion(xml, game_id, revision, disc_number) ==
    IF Len(game_id) # 6 THEN nullopt
    ELSE IF ~xml.parses THEN nullopt
    ELSE IF ~xml.wiidisc.present THEN nullopt
    ELSE Optional([m_version |-> AsInt(xml.wiidisc.version, -1),
                   m_root |-> ReplaceVariables(AsString(xml.wiidisc.root), game_id),
                   m_patches |-> ParsePatches(xml.wiidisc.patches, game_id)])

ParseString(xml, game_id, revision, disc_number) ==
    IF Len(game_id) # 6 THEN nullopt
    ELSE IF ~xml.parses THEN nullopt
    ELSE IF ~xml.wiidisc.present THEN nullopt
    ELSE IF AsInt(xml.wiidisc.version, -1) # 1 THEN nullopt
    ELSE IF xml.wiidisc.id.present
            /\ ~IdAttributesMatch(xml.wiidisc.id.attributes, game_id, revision, disc_number)
    THEN nullopt
    ELSE IF xml.wiidisc.id.present
            /\ ~CheckRegion(xml.wiidisc.id.regions, SubstrN(game_id, 3, 1))
    THEN nullopt
    ELSE Optional([m_version |-> AsInt(xml.wiidisc.version, -1),
                   m_root |-> ReplaceVariables(AsString(xml.wiidisc.root), game_id),
                   m_patches |-> ParsePatches(xml.wiidisc.patches, game_id)])

(* the documents: what doc.load_buffer makes of the text *)
NoId == [present |-> FALSE, attributes |-> <<>>, regions |-> <<>>]
Wiidisc(present, version, root, id, patches) ==
    [present |-> present, version |-> version, root |-> root, id |-> id, patches |-> patches]
Document(parses, wiidisc) == [parses |-> parses, wiidisc |-> wiidisc]

NotParsed ==
    [called |-> FALSE, xml |-> Document(FALSE, Wiidisc(FALSE, Absent, Absent, NoId, <<>>)),
     game_id |-> <<>>, revision |-> 0, disc_number |-> 0, result |-> nullopt]

ParseUnused == ps = NotParsed

-----------------------------------------------------------------------------
(* PatchEngine: the frame pass and the registry of active memory patches     *)

MaxIndex == 2        \* memory-patch indices are 1..MaxIndex
MaxRegistry == 2     \* AddMemoryPatch is not called on a registry of this length

Indices == 1..MaxIndex

(* std::vector<std::size_t>: 'cells' is the buffer (its length the capacity), *)
(* the first 'size' cells are the elements.                                   *)
Vector(cells, size) == [cells |-> cells, size |-> size]
Elements(v) == SubSeq(v.cells, 1, v.size)
Capacity(v) == Len(v.cells)

(* push_back finds no room and moves the elements to a new buffer *)
Reallocates(v) == v.size = Capacity(v)

(* s_on_frame_memory.push_back(index); a new buffer has twice the capacity *)
PushBack(v, index) ==
    IF Reallocates(v)
    THEN LET capacity == IF Capacity(v) = 0 THEN 1 ELSE 2 * Capacity(v)
         IN  Vector([i \in 1..capacity |->
                        IF i <= v.size THEN v.cells[i] ELSE IF i = v.size + 1 THEN index ELSE 0],
                    v.size + 1)
    ELSE Vector([v.cells EXCEPT ![v.size + 1] = index], v.size + 1)

(* erase(std::remove(begin, end, index), end): the kept elements move to the  *)
(* front, the cells behind them keep what they held                           *)
EraseRemove(v, index) ==
    LET kept == SelectSeq(Elements(v), LAMBDA e : e # index)
    IN  Vector(kept \o SubSeq(v.cells, Len(kept) + 1, Capacity(v)), Len(kept))

(* the management thread; 'removed' holds the indices whose last call that   *)
(* has returned is RemoveMemoryPatch, 'kept' the indices that were added and  *)
(* not removed when Shutdown last ran and have not been removed since, and    *)
(* 'cleared' tells that Shutdown has run with no LoadPatches after it          *)
ManagementIdle ==
    [pc |-> "idle", op |-> "none", index |-> 0, removed |-> {}, kept |-> {}, cleared |-> FALSE]

SpeedHacksUnused == s_speed_hacks = {}

(* s_on_frame_memory_mutex; the frame pass holds it within one step only *)
MutexHeldByManagement == mgmt.pc = "locked"

(* the vector as the pending call of the management thread leaves it *)
AfterPending(v) ==
    IF mgmt.op = "add" THEN PushBack(v, mgmt.index)
    ELSE IF mgmt.op = "remove" THEN EraseRemove(v, mgmt.index)
    ELSE v

(* std::span<const std::size_t>(s_on_frame_memory), built for the call of     *)
(* ApplyMemoryPatches before the mutex is taken: the buffer it points to and  *)
(* its length. Built while the other thread is inside the vector, it may see  *)
(* either buffer and either length.                                           *)
Span(buffer, size) == [buffer |-> buffer, size |-> size]
NoSpan == Span("none", 0)

SpanOf(v) ==
    IF MutexHeldByManagement
    THEN {Span(b, n) :
            b \in {"current"} \cup (IF mgmt.op = "add" /\ Reallocates(v) THEN {"next"} ELSE {}),
            n \in {v.size, AfterPending(v).size}}
    ELSE {Span("current", v.size)}

(* what iterating the span yields once the mutex is held; a span into a freed *)
(* buffer yields anything                                                     *)
SpanRead(span, v) ==
    IF span.buffer = "current" THEN {SubSeq(v.cells, 1, span.size)}
    ELSE [1..span.size -> Indices]

(* ppcState and the guest words IsStackSane reads: msr.DR, msr.IR, gpr[1],    *)
(* the word at SP, the word at next_SP + 4 and the instruction at that word   *)
StackAddresses == {0, 4, 8, 12, 16}
HostIsRAMAddress(address) == address \in {4, 8, 12}
HostIsInstructionRAMAddress(address) == address \in {4}

SaneGuest ==
    [msr_DR |-> TRUE, msr_IR |-> TRUE, gpr1 |-> 4, word_at_SP |-> 8,
     word_at_next_SP_4 |-> 4, instruction |-> 1]

GuestFields == {"msr_DR", "msr_IR", "gpr1", "word_at_SP", "word_at_next_SP_4", "instruction"}

(* guest states that differ from SaneGuest in at most one place *)
GuestStates ==
    {g \in [msr_DR : BOOLEAN, msr_IR : BOOLEAN, gpr1 : StackAddresses,
            word_at_SP : StackAddresses, word_at_next_SP_4 : {0, 4}, instruction : {0, 1}] :
        Cardinality({f \in GuestFields : g[f] # SaneGuest[f]}) <= 1}

IsStackSane(g) ==
    LET SP == g.gpr1
        next_SP == g.word_at_SP
        address == g.word_at_next_SP_4
    IN  IF ~HostIsRAMAddress(SP) THEN FALSE
        ELSE IF next_SP <= SP \/ ~HostIsRAMAddress(next_SP)
                  \/ ~HostIsRAMAddress(next_SP + 4)
        THEN FALSE
        ELSE HostIsInstructionRAMAddress(address) /\ 0 # g.instruction

(* PatchEntry and Patch of the on-frame list *)
PatchEntry(type, address, value, comparand, conditional) ==
    [type |-> type, address |-> address, value |-> value, comparand |-> comparand,
     conditional |-> conditional]

Width(type) == IF type = "byte" THEN 1 ELSE IF type = "word" THEN 2 ELSE 4

RECURSIVE Power256(_)
Power256(n) == IF n = 0 THEN 1 ELSE 256 * Power256(n - 1)

(* PowerPC::HostRead_U8/U16/U32: big-endian *)
RECURSIVE HostRead(_, _, _)
HostRead(mem, address, width) ==
    IF width = 0 THEN 0
    ELSE mem[address] * Power256(width - 1) + HostRead(mem, address + 1, width - 1)

(* PowerPC::HostWrite_U8/U16/U32 *)
RECURSIVE HostWrite(_, _, _, _)
HostWrite(mem, value, address, width) ==
    IF width = 0 THEN mem
    ELSE HostWrite([mem EXCEPT ![address] = (value \div Power256(width - 1)) % 256],
                   value, address + 1, width - 1)

(* static_cast<u8>, static_cast<u16> or none, of a u32 *)
Truncate(value, width) == IF width = 4 THEN value ELSE value % Power256(width)

(* one entry of an enabled patch, were the comparand compared as it is *)
ApplyPatchEntryUntruncated(state, entry) ==
    LET width == Width(entry.type)
    IN  IF ~entry.conditional
           \/ HostRead(state.memory, entry.address, width) = entry.comparand
        THEN [memory |-> HostWrite(state.memory, Truncate(entry.value, width),
                                   entry.address, width),
              log |-> Append(state.log, entry)]
        ELSE state

(* one entry of an enabled patch *)
ApplyPatchEntry(state, entry) ==
    LET width == Width(entry.type)
    IN  IF ~entry.conditional
           \/ HostRead(state.memory, entry.address, width) = Truncate(entry.comparand, width)
        THEN [memory |-> HostWrite(state.memory, Truncate(entry.value, width),
                                   entry.address, width),
              log |-> Append(state.log, entry)]
        ELSE state

RECURSIVE ApplyPatchEntries(_, _)
ApplyPatchEntries(state, entries) ==
    IF entries = <<>> THEN state
    ELSE ApplyPatchEntries(ApplyPatchEntry(state, Head(entries)), Tail(entries))

(* ApplyPatches(patches): the memory after it and the entries it wrote *)
RECURSIVE ApplyPatches(_, _)
ApplyPatches(state, patches) ==
    IF patches = <<>> THEN state
    ELSE ApplyPatches(IF Head(patches).enabled
                      THEN ApplyPatchEntries(state, Head(patches).entries)
                      ELSE state,
                      Tail(patches))

(* the on-frame lists of the model: none, or one patch with one entry *)
FrameAddresses == 0..3
OnFrameEntries ==
    {PatchEntry(t, 0, 258, c, cond) :
        t \in {"byte", "word", "dword"}, c \in {0, 1}, cond \in BOOLEAN}
OnFrameLists ==
    {<<>>} \cup {<<[enabled |-> en, entries |-> <<e>>]>> : en \in BOOLEAN, e \in OnFrameEntries}

(* what one call of ApplyFramePatches did *)
NoPass ==
    [pc |-> "running", ret |-> "none", ppcState |-> SaneGuest, before |-> <<>>,
     patches_applied |-> FALSE, writes |-> <<>>, span |-> NoSpan, memory_patches_applied |-> FALSE, applied |-> <<>>,
     locked_registry |-> <<>>, locked_removed |-> {}, locked_kept |-> {}, gecko |-> FALSE,
     action_replay |-> FALSE]

(* ApplyFramePatches up to the call of ApplyMemoryPatches: the gate, then     *)
(* ApplyPatches(s_on_frame)                                                   *)
EnterFramePassUngated(mem, patches, g) ==
    LET r == ApplyPatches([memory |-> mem, log |-> <<>>], patches)
    IN  [gate |-> g.msr_DR /\ g.msr_IR /\ IsStackSane(g), memory |-> r.memory, log |-> r.log]

EnterFramePass(mem, patches, g) ==
    IF ~g.msr_DR \/ ~g.msr_IR \/ ~IsStackSane(g)
    THEN [gate |-> FALSE, memory |-> mem, log |-> <<>>]
    ELSE LET r == ApplyPatches([memory |-> mem, log |-> <<>>], patches)
         IN  [gate |-> TRUE, memory |-> r.memory, log |-> r.log]

FrameUnused ==
    /\ s_on_frame = <<>>
    /\ s_on_frame_memory = Vector(<<>>, 0)
    /\ mgmt = ManagementIdle
    /\ fr = NoPass

-----------------------------------------------------------------------------
(* The lines of the OnFrame section: SerializeLine and DeserializeLine.       *)
(* Strings are sequences of characters.                                       *)

(* s_patch_type_strings, by PatchType *)
s_patch_type_strings ==
    <<[type |-> "byte", string |-> <<"b", "y", "t", "e">>],
      [type |-> "word", string |-> <<"w", "o", "r", "d">>],
      [type |-> "dword", string |-> <<"d", "w", "o", "r", "d">>]>>

PatchTypeAsString(type) ==
    s_patch_type_strings[CHOOSE i \in 1..3 : s_patch_type_strings[i].type = type].string

UpperHexDigits ==
    <<"0", "1", "2", "3", "4", "5", "6", "7", "8", "9", "A", "B", "C", "D", "E", "F">>
DigitsBelow(base) == {UpperHexDigits[i] : i \in 1..base}
DigitValue(c) == (CHOOSE i \in 1..16 : UpperHexDigits[i] = c) - 1

(* fmt's {:08X}: upper-case hexadecimal, zero-padded to 'digits' places *)
RECURSIVE FormatHex(_, _)
FormatHex(value, digits) ==
    IF digits = 0 THEN <<>>
    ELSE FormatHex(value \div 16, digits - 1) \o <<UpperHexDigits[(value % 16) + 1]>>

(* SerializeLine that writes the numbers without the 0x in front *)
SerializeLineBare(entry) ==
    FormatHex(entry.address, 8) \o <<":">> \o PatchTypeAsString(entry.type) \o <<":">>
      \o FormatHex(entry.value, 8)
      \o (IF entry.conditional THEN <<":">> \o FormatHex(entry.comparand, 8) ELSE <<>>)

SerializeLine(entry) ==
    IF entry.conditional
    THEN <<"0", "x">> \o FormatHex(entry.address, 8) \o <<":">> \o PatchTypeAsString(entry.type)
           \o <<":", "0", "x">> \o FormatHex(entry.value, 8)
           \o <<":", "0", "x">> \o FormatHex(entry.comparand, 8)
    ELSE <<"0", "x">> \o FormatHex(entry.address, 8) \o <<":">> \o PatchTypeAsString(entry.type)
           \o <<":", "0", "x">> \o FormatHex(entry.value, 8)

(* line.find(c): the position of the first c, 0 for npos *)
Find(line, c) ==
    IF \E i \in 1..Len(line) : line[i] = c
    THEN CHOOSE i \in 1..Len(line) : line[i] = c /\ \A j \in 1..(i - 1) : line[j] # c
    ELSE 0

(* SplitString(str, delim): std::getline until the stream ends; no item       *)
(* follows a delimiter that ends the string                                   *)
RECURSIVE SplitString(_, _)
SplitString(str, delim) ==
    IF str = <<>> THEN <<>>
    ELSE IF Find(str, delim) = 0 THEN <<str>>
    ELSE <<SubSeq(str, 1, Find(str, delim) - 1)>>
           \o SplitString(SubSeq(str, Find(str, delim) + 1, Len(str)), delim)

RECURSIVE DigitsValue(_, _, _)
DigitsValue(digits, base, value) ==
    IF digits = <<>> THEN value
    ELSE DigitsValue(Tail(digits), base, base * value + DigitValue(Head(digits)))

(* TryParse(str, &u32): strtoul with base 0 on the whole string: 0x and       *)
(* hexadecimal digits, 0 and octal digits, or decimal digits; the empty       *)
(* string gives 0                                                             *)
TryParseU32(str) ==
    LET hex == StartsWith(str, <<"0", "x">>) /\ Len(str) > 2
        base == IF hex THEN 16 ELSE IF StartsWith(str, <<"0">>) THEN 8 ELSE 10
        digits == IF hex THEN Substr(str, 2) ELSE str
    IN  IF \A i \in 1..Len(digits) : digits[i] \in DigitsBelow(base)
        THEN [ok |-> TRUE, value |-> DigitsValue(digits, base, 0)]
        ELSE [ok |-> FALSE, value |-> 0]

(* std::find(s_patch_type_strings.begin(), end(), item), 0 for end() *)
FindPatchType(item) ==
    IF \E i \in 1..3 : s_patch_type_strings[i].string = item
    THEN CHOOSE i \in 1..3 : s_patch_type_strings[i].string = item
    ELSE 0

(* std::optional<PatchEntry> *)
NoPatchEntry == [has_value |-> FALSE, entry |-> PatchEntry("byte", 0, 0, 0, FALSE)]

DeserializeLine(line) ==
    LET loc == Find(line, "=")
        replaced == IF loc # 0 THEN [line EXCEPT ![loc] = ":"] ELSE line
        items == SplitString(replaced, ":")
    IN  IF Len(items) < 3 THEN NoPatchEntry
        ELSE IF ~TryParseU32(items[1]).ok THEN NoPatchEntry
        ELSE IF ~TryParseU32(items[3]).ok THEN NoPatchEntry
        ELSE IF Len(items) >= 4 /\ ~TryParseU32(items[4]).ok THEN NoPatchEntry
        ELSE IF FindPatchType(items[2]) = 0 THEN NoPatchEntry
        ELSE [has_value |-> TRUE,
              entry |-> PatchEntry(s_patch_type_strings[FindPatchType(items[2])].type,
                                   TryParseU32(items[1]).value, TryParseU32(items[3]).value,
                                   IF Len(items) >= 4 THEN TryParseU32(items[4]).value ELSE 0,
                                   Len(items) >= 4)]

(* 'ln' before any call *)
NoLine == [op |-> "none", entry |-> NoPatchEntry.entry, line |-> <<>>, result |-> NoPatchEntry]

LineUnused == ln = NoLine

-----------------------------------------------------------------------------
(* Memory entries: ApplyPatchToMemory and ApplyMemoryPatch                    *)

RAMSize == 2         \* addresses 0..RAMSize-1 are readable
MaxValueLen == 2     \* lengths of Memory::m_value, m_original and of a value file

Bytes == {0, 1}

(* u32 addresses scaled down: offset + i wraps at AddressSpace; the one       *)
(* address above the RAM is not readable.                                     *)
AddressSpace == RAMSize + 1
Addresses == 0..(AddressSpace - 1)

ByteSeqs == UNION {[1..n -> Bytes] : n \in 0..MaxValueLen}

(* PowerPC::HostTryReadU8: fails on an address that is not readable *)
HostTryReadU8(mem, address) ==
    IF address < RAMSize THEN [ok |-> TRUE, value |-> mem[address]]
    ELSE [ok |-> FALSE, value |-> 0]

(* PowerPC::HostTryWriteU8(value, address) *)
HostTryWriteU8(mem, value, address) == [mem EXCEPT ![address] = value]

ReadEvent(address) == [op |-> "read", address |-> address, value |-> 0]
WriteEvent(address, value) == [op |-> "write", address |-> address, value |-> value]

(* original[i], i counted from 1; past the end of the vector the read is out  *)
(* of bounds and yields whatever byte lies there                              *)
OriginalAt(original, garbage, i) ==
    IF i <= Len(original) THEN original[i] ELSE garbage[i]

(* The verification loop of ApplyMemoryPatch: i runs over value.size().       *)
RECURSIVE VerifyLoop(_, _, _, _, _, _, _)
VerifyLoop(mem, offset, value, original, garbage, i, log) ==
    IF i > Len(value) THEN [ok |-> TRUE, log |-> log]
    ELSE LET address == (offset + (i - 1)) % AddressSpace
             result == HostTryReadU8(mem, address)
             logged == Append(log, ReadEvent(address))
         IN  IF ~result.ok \/ result.value # OriginalAt(original, garbage, i)
             THEN [ok |-> FALSE, log |-> logged]
             ELSE VerifyLoop(mem, offset, value, original, garbage, i + 1, logged)

(* for (u32 i = 0; i < value.size(); ++i) HostTryWriteU8(value[i], offset + i) *)
RECURSIVE WriteLoop(_, _, _, _, _)
WriteLoop(mem, offset, value, i, log) ==
    IF i > Len(value) THEN [memory |-> mem, log |-> log]
    ELSE LET address == (offset + (i - 1)) % AddressSpace
         IN  WriteLoop(HostTryWriteU8(mem, value[i], address), offset, value, i + 1,
                       Append(log, WriteEvent(address, value[i])))

(* A variant that checks and writes byte by byte *)
RECURSIVE CheckAndWriteLoop(_, _, _, _, _, _)
CheckAndWriteLoop(mem, offset, value, original, i, log) ==
    IF i > Len(value) THEN [memory |-> mem, log |-> log, verified |-> TRUE]
    ELSE LET address == (offset + (i - 1)) % AddressSpace
             result == HostTryReadU8(mem, address)
             logged == Append(log, ReadEvent(address))
         IN  IF i <= Len(original) /\ (~result.ok \/ result.value # original[i])
             THEN [memory |-> mem, log |-> logged, verified |-> FALSE]
             ELSE CheckAndWriteLoop(HostTryWriteU8(mem, value[i], address), offset, value,
                                    original, i + 1,
                                    Append(logged, WriteEvent(address, value[i])))

ApplyMemoryPatchInterleaved(mem, offset, value, original, garbage) ==
    CheckAndWriteLoop(mem, offset, value, original, 1, <<>>)

(* ApplyMemoryPatch(offset, value, original): the memory after it, the reads  *)
(* and writes it made, and whether the verification let it through.          *)
ApplyMemoryPatch(mem, offset, value, original, garbage) ==
    LET check == IF original # <<>>
                 THEN VerifyLoop(mem, offset, value, original, garbage, 1, <<>>)
                 ELSE [ok |-> TRUE, log |-> <<>>]
    IN  IF ~check.ok THEN [memory |-> mem, log |-> check.log, verified |-> FALSE]
        ELSE LET w == WriteLoop(mem, offset, value, 1, check.log)
             IN  [memory |-> w.memory, log |-> w.log, verified |-> TRUE]

(* Memory::m_valuefile: empty, or the path of a host file that holds 'bytes'  *)
(* or cannot be opened or read                                                *)
NoValueFile == [set |-> FALSE, ok |-> FALSE, bytes |-> <<>>]
ValueFiles ==
    {NoValueFile, [set |-> TRUE, ok |-> FALSE, bytes |-> <<>>]}
      \cup {[set |-> TRUE, ok |-> TRUE, bytes |-> b] : b \in ByteSeqs}

Untouched(mem) == [memory |-> mem, log |-> <<>>, verified |-> FALSE]

(* ApplyMemoryPatch(patch, memory_patch): resolve the value, then apply *)
ApplyMemoryEntry(mem, memory_patch, garbage) ==
    IF memory_patch.m_valuefile.set
    THEN IF ~memory_patch.m_valuefile.ok THEN Untouched(mem)
         ELSE ApplyMemoryPatch(mem, memory_patch.m_offset, memory_patch.m_valuefile.bytes,
                               memory_patch.m_original, garbage)
    ELSE ApplyMemoryPatch(mem, memory_patch.m_offset, memory_patch.m_value,
                          memory_patch.m_original, garbage)

(* a loop body that applies every entry, whatever its flags *)
ApplyPatchToMemoryEntryUnflagged(mem, memory_patch, garbage) ==
    ApplyMemoryEntry(mem, memory_patch, garbage)

(* the body of the loop of ApplyPatchToMemory *)
ApplyPatchToMemoryEntry(mem, memory_patch, garbage) ==
    IF memory_patch.m_ocarina \/ memory_patch.m_search THEN Untouched(mem)
    ELSE ApplyMemoryEntry(mem, memory_patch, garbage)

(* the bytes the entry asks to write *)
ResolvedValue(memory_patch) ==
    IF memory_patch.m_valuefile.set THEN memory_patch.m_valuefile.bytes
    ELSE memory_patch.m_value

(* whether the entry reaches ApplyMemoryPatch(offset, value, original) *)
Reached(memory_patch) ==
    /\ ~memory_patch.m_ocarina
    /\ ~memory_patch.m_search
    /\ memory_patch.m_valuefile.set => memory_patch.m_valuefile.ok

MemoryEntries ==
    {[m_offset |-> o, m_value |-> v, m_valuefile |-> f, m_original |-> g,
      m_ocarina |-> oc, m_search |-> se] :
        o \in Addresses, v \in ByteSeqs, f \in ValueFiles, g \in ByteSeqs,
        oc \in BOOLEAN, se \in BOOLEAN}

NoEntry ==
    [m_offset |-> 0, m_value |-> <<>>, m_valuefile |-> NoValueFile, m_original |-> <<>>,
     m_ocarina |-> FALSE, m_search |-> FALSE]

(* the position of ApplyPatchToMemory in its loop: the entry it is at, the    *)
(* memory before that entry, what the entry read and wrote, and whether the   *)
(* entry before it in the list was one the loop passed over (continue)        *)
MemoryIdle == [phase |-> "idle", entry |-> NoEntry, before |-> <<>>, log |-> <<>>,
               verified |-> FALSE, after_skip |-> FALSE]

MemoryUnused ==
    /\ memory = [a \in Addresses |-> 0]
    /\ mp = MemoryIdle

InitMemory ==
    /\ memory \in [Addresses -> Bytes]
    /\ mp = MemoryIdle
    /\ OverlayUnused
    /\ FrameUnused
    /\ FSTUnused
    /\ ResolveUnused
    /\ ParseUnused
    /\ SpeedHacksUnused
    /\ LineUnused

(* ApplyPatchToMemory comes to the next entry of patch.m_memory_patches; an   *)
(* entry that names a value file carries no inline value here.                *)
NextMemoryEntry ==
    /\ mp.phase = "idle"
    /\ \E e \in MemoryEntries :
          /\ e.m_valuefile.set => e.m_value = <<>>
          /\ mp' = [mp EXCEPT !.phase = "entry", !.entry = e]
    /\ UNCHANGED <<memory, node, last, s_on_frame, s_on_frame_memory, mgmt, fr, fst, fp, rs, ps, s_speed_hacks, ln>>

(* the entry is applied *)
ApplyEntry ==
    /\ mp.phase = "entry"
    /\ \E garbage \in [(Len(mp.entry.m_original) + 1)..MaxValueLen -> Bytes] :
          LET r == ApplyPatchToMemoryEntry(memory, mp.entry, garbage)
          IN  /\ memory' = r.memory
              /\ mp' = [mp EXCEPT !.phase = "applied", !.before = memory, !.log = r.log,
                                  !.verified = r.verified]
    /\ UNCHANGED <<node, last, s_on_frame, s_on_frame_memory, mgmt, fr, fst, fp, rs, ps, s_speed_hacks, ln>>

(* the loop goes on *)
EntryDone ==
    /\ mp.phase = "applied"
    /\ mp' = [MemoryIdle EXCEPT !.after_skip = mp.entry.m_ocarina \/ mp.entry.m_search]
    /\ UNCHANGED <<memory, node, last, s_on_frame, s_on_frame_memory, mgmt, fr, fst, fp, rs, ps, s_speed_hacks, ln>>

NextMemory == NextMemoryEntry \/ ApplyEntry \/ EntryDone

SpecMemory == InitMemory /\ [][NextMemory]_vars

Writes(log) == SelectSeq(log, LAMBDA e : e.op = "write")

(* the writes that applying 'value' at 'offset' consists of, in order *)
ExpectedWrites(offset, value) ==
    [i \in 1..Len(value) |-> WriteEvent((offset + (i - 1)) % AddressSpace, value[i])]

(* the original bytes all match what the memory held *)
OriginalMatches(mem, offset, original) ==
    \A i \in 1..Len(original) :
        LET r == HostTryReadU8(mem, (offset + (i - 1)) % AddressSpace)
        IN  r.ok /\ r.value = original[i]

(* C7: with a non-empty original, the value is written only if every address  *)
(* of [address, address + len(original)) is readable and holds the            *)
(* corresponding byte of original.                                            *)
C7_WrittenOnlyIfOriginalMatches ==
    (mp.phase = "applied" /\ Reached(mp.entry) /\ mp.entry.m_original # <<>>
       /\ Writes(mp.log) # <<>>)
      => OriginalMatches(mp.before, mp.entry.m_offset, mp.entry.m_original)

(* C8: applying one entry is all or nothing: the verification fails and no    *)
(* byte changes, or every value[i] is written to address + i in ascending i   *)
(* and nothing else changes; no read follows a write.                         *)
C8_AllOrNothing ==
    (mp.phase = "applied" /\ Reached(mp.entry)) =>
        LET value == ResolvedValue(mp.entry)
            writes == Writes(mp.log)
        IN  /\ \/ /\ ~mp.verified
                  /\ writes = <<>>
                  /\ memory = mp.before
               \/ /\ mp.verified
                  /\ writes = ExpectedWrites(mp.entry.m_offset, value)
                  /\ \A a \in Addresses :
                        memory[a] =
                          IF \E i \in 1..Len(value) : writes[i].address = a
                          THEN value[CHOOSE i \in 1..Len(value) : writes[i].address = a]
                          ELSE mp.before[a]
            /\ \A i \in 1..Len(mp.log), j \in 1..Len(mp.log) :
                  (mp.log[i].op = "write" /\ mp.log[j].op = "read") => j < i

(* an entry whose verification passed and that wrote two bytes, and one that  *)
(* was turned down                                                            *)
C8_Witness ==
    /\ mp.phase = "applied"
    /\ Reached(mp.entry)
    /\ mp.entry.m_original # <<>>
    /\ mp.verified
    /\ Len(Writes(mp.log)) > 1
    /\ memory # mp.before

(* C21: an entry whose ocarina or search flag is set makes no memory read and *)
(* no memory write, whatever its value, valuefile and original hold, and the  *)
(* loop goes on: the entry after it is applied as any other entry is.         *)
C21_FlaggedSkipped ==
    /\ (mp.phase = "applied" /\ (mp.entry.m_ocarina \/ mp.entry.m_search)) =>
          /\ mp.log = <<>>
          /\ memory = mp.before
    /\ (mp.phase = "applied" /\ mp.after_skip /\ Reached(mp.entry)
          /\ mp.entry.m_original = <<>>) =>
          /\ Writes(mp.log) = ExpectedWrites(mp.entry.m_offset, ResolvedValue(mp.entry))
          /\ memory = WriteLoop(mp.before, mp.entry.m_offset, ResolvedValue(mp.entry), 1,
                                <<>>).memory

(* a flagged entry with a value, an original and readable addresses was       *)
(* passed over                                                                *)
C21_Witness ==
    /\ mp.phase = "applied"
    /\ mp.entry.m_ocarina
    /\ ~mp.entry.m_search
    /\ Len(mp.entry.m_value) = MaxValueLen
    /\ mp.entry.m_original # <<>>
    /\ mp.entry.m_offset = 0
    /\ OriginalMatches(mp.before, mp.entry.m_offset, mp.entry.m_original)
    /\ \E a \in 0..(RAMSize - 1) : memory[a] # mp.entry.m_value[a + 1]

-----------------------------------------------------------------------------
(* SpecFST: one patch applied to a tree                                      *)

VolumeFile(name, size) ==
    FSTBuilderNode(name, size, TRUE, <<BuilderContentSource(0, size, ContentVolume(0))>>)

InitialTrees ==
    {<<>>,
     <<VolumeFile(<<"a">>, 1)>>,
     <<FSTBuilderNode(<<"d">>, 0, FALSE, <<VolumeFile(<<"a">>, MaxFileSize - 1)>>),
       VolumeFile(<<"b">>, 1),
       VolumeFile(<<"a">>, 1)>>}

DiscPaths == {<<"a">>, <<"/", "b">>, <<"d", "/", "a">>, <<"d">>, <<"a", "/", "b">>}

(* File {m_disc, m_external, m_resize, m_create, m_offset, m_length} *)
FileEntries ==
    [m_disc : DiscPaths, m_external : ExternalNames, m_resize : BOOLEAN, m_create : BOOLEAN,
     m_offset : {0}, m_length : {0}]

(* Folder {m_disc, m_external, m_resize, m_create, m_recursive, m_length} *)
FolderEntries ==
    [m_disc : {<<>>, <<"d">>, <<"a">>}, m_external : ExternalDirectories, m_resize : BOOLEAN,
     m_create : BOOLEAN, m_recursive : BOOLEAN, m_length : {0}]

(* Patch {m_file_patches, m_folder_patches}: up to two File entries and up to *)
(* one Folder entry                                                           *)
Patches ==
    [m_file_patches : {<<>>} \cup {<<f>> : f \in FileEntries}
                        \cup {<<f, g>> : f \in FileEntries, g \in FileEntries},
     m_folder_patches : {<<>>} \cup {<<f>> : f \in FolderEntries}]

InitFST ==
    /\ fst \in InitialTrees
    /\ fp = NotCalled
    /\ OverlayUnused
    /\ MemoryUnused
    /\ FrameUnused
    /\ ResolveUnused
    /\ ParseUnused
    /\ SpeedHacksUnused
    /\ LineUnused

(* ApplyPatchToFST(patch, &fst), once on a tree *)
CallApplyPatchToFST ==
    /\ ~fp.called
    /\ \E patch \in Patches :
          /\ fst' = ApplyPatchToFST(patch, fst)
          /\ fp' = [NotCalled EXCEPT !.called = TRUE, !.patch = patch, !.before = fst]
    /\ UNCHANGED <<node, last, memory, mp, s_on_frame, s_on_frame_memory, mgmt, fr, rs, ps, s_speed_hacks, ln>>

NextFST == CallApplyPatchToFST

SpecFST == InitFST /\ [][NextFST]_vars

(* the entries whose external file or directory exists *)
ExternalExists(patch) ==
    [m_file_patches |-> SelectSeq(patch.m_file_patches, LAMBDA f : IOFile(f.m_external).ok),
     m_folder_patches |-> SelectSeq(patch.m_folder_patches, LAMBDA f : f.m_external # "missing")]

(* C6: an entry whose external file is missing changes nothing in the tree,   *)
(* whatever its create flag, and the other entries are applied: the tree      *)
(* after a patch is the tree the patch without those entries gives.           *)
C6_MissingExternalNoOp ==
    fp.called => fst = ApplyPatchToFST(ExternalExists(fp.patch), fp.before)

(* the disc paths a Folder entry with a disc path resolves: one per file of   *)
(* the external directory                                                     *)
RECURSIVE ChildDiscPaths(_, _)
ChildDiscPaths(children, disc_path) ==
    IF children = <<>> THEN {}
    ELSE LET child == Head(children)
             child_disc_path == disc_path \o <<"/">> \o child.virtualName
         IN  (IF child.isDirectory THEN ChildDiscPaths(child.children, child_disc_path)
              ELSE {child_disc_path})
             \cup ChildDiscPaths(Tail(children), disc_path)

(* the File entries whose path yields a node when their turn comes *)
RECURSIVE ResolvedFiles(_, _)
ResolvedFiles(files, nodes) ==
    IF files = <<>> THEN <<>>
    ELSE IF FindFileNodeInFST(Head(files).m_disc, nodes, Head(files).m_create).node = nullptr
    THEN ResolvedFiles(Tail(files), nodes)
    ELSE <<Head(files)>> \o ResolvedFiles(Tail(files), ApplyFilePatches(<<Head(files)>>, nodes))

(* a Folder entry with a disc path none of whose files' paths yields a node *)
FolderUnresolved(folder, nodes) ==
    /\ folder.m_disc # <<>>
    /\ \A path \in ChildDiscPaths(ScanDirectoryTree(folder.m_external, folder.m_recursive).children,
                                  folder.m_disc) :
          FindFileNodeInFST(path, nodes, folder.m_create).node = nullptr

RECURSIVE ResolvedFolders(_, _)
ResolvedFolders(folders, nodes) ==
    IF folders = <<>> THEN <<>>
    ELSE IF FolderUnresolved(Head(folders), nodes) THEN ResolvedFolders(Tail(folders), nodes)
    ELSE <<Head(folders)>>
           \o ResolvedFolders(Tail(folders), ApplyFolderPatches(<<Head(folders)>>, nodes))

Resolved(patch, nodes) ==
    LET files == ResolvedFiles(patch.m_file_patches, nodes)
    IN  [m_file_patches |-> files,
         m_folder_patches |-> ResolvedFolders(patch.m_folder_patches,
                                              ApplyFilePatches(files, nodes))]

(* C13: an entry whose target path yields no node (a component is missing    *)
(* with create=false, or a node on the path is of the wrong kind) leaves the  *)
(* tree as it was, whatever its create flag, and the other entries are        *)
(* applied: the tree after a patch is the tree the patch without those        *)
(* entries gives.                                                             *)
C13_UnresolvedNoOp ==
    fp.called => fst = ApplyPatchToFST(Resolved(fp.patch, fp.before), fp.before)

(* a File entry with create=true fails on a node of the wrong kind, the File  *)
(* entry after it changes the tree                                            *)
C13_Witness ==
    /\ fp.called
    /\ Len(fp.patch.m_file_patches) = 2
    /\ fp.patch.m_file_patches[1].m_create
    /\ FindFileNodeInFST(fp.patch.m_file_patches[1].m_disc, fp.before, TRUE).node = nullptr
    /\ fst # fp.before

(* the files ScanDirectoryTree found, directories left out *)
RECURSIVE ExternalFiles(_)
ExternalFiles(children) ==
    IF children = <<>> THEN <<>>
    ELSE (IF Head(children).isDirectory THEN ExternalFiles(Head(children).children)
          ELSE <<Head(children)>>)
         \o ExternalFiles(Tail(children))

(* the positions of the File nodes of a tree, and the node at a position *)
RECURSIVE FilePositions(_, _)
FilePositions(nodes, at) ==
    UNION {IF nodes[i].is_file THEN {Append(at, i)}
           ELSE FilePositions(nodes[i].m_content, Append(at, i)) : i \in 1..Len(nodes)}

RECURSIVE NodeAt(_, _)
NodeAt(nodes, at) ==
    IF Len(at) = 1 THEN nodes[at[1]] ELSE NodeAt(nodes[at[1]].m_content, Tail(at))

(* ApplyPatchToFST was called with one Folder entry, without a disc path,     *)
(* whose external directory holds one file                                    *)
WildcardCall ==
    /\ fp.called
    /\ fp.patch.m_file_patches = <<>>
    /\ Len(fp.patch.m_folder_patches) = 1
    /\ fp.patch.m_folder_patches[1].m_disc = <<>>
    /\ Len(ExternalFiles(ScanDirectoryTree(fp.patch.m_folder_patches[1].m_external,
                                           fp.patch.m_folder_patches[1].m_recursive).children)) = 1

WildcardFolder == fp.patch.m_folder_patches[1]
WildcardFile ==
    ExternalFiles(ScanDirectoryTree(WildcardFolder.m_external,
                                    WildcardFolder.m_recursive).children)[1]

(* the node at 'at' holds the external file F and nothing else *)
ReplacedBy(at, F) ==
    /\ NodeAt(fst, at).m_size = IOFile(F.physicalName).size
    /\ NodeAt(fst, at).m_content
         = <<BuilderContentSource(0, IOFile(F.physicalName).size,
                                  ContentFile(0, F.physicalName))>>

(* C14 as stated: after a wildcard Folder entry whose external directory      *)
(* holds one file F, every File node named like F, in whatever folder, has F  *)
(* as its only content source and F's size.                                   *)
C14_WildcardReplacesAll ==
    WildcardCall =>
        \A at \in FilePositions(fp.before, <<>>) :
            NodeAt(fp.before, at).m_filename = WildcardFile.virtualName
                => ReplacedBy(at, WildcardFile)

(* C14 amended: the same, for an entry of length 0 and a non-empty F, and for *)
(* the nodes that are no larger than F unless the entry has resize set; the   *)
(* File nodes of another name are left as they were.                          *)
C14_WildcardReplaces ==
    (WildcardCall /\ WildcardFolder.m_length = 0 /\ IOFile(WildcardFile.physicalName).size > 0) =>
        \A at \in FilePositions(fp.before, <<>>) :
            IF NodeAt(fp.before, at).m_filename = WildcardFile.virtualName
            THEN (WildcardFolder.m_resize
                    \/ NodeAt(fp.before, at).m_size <= IOFile(WildcardFile.physicalName).size)
                  => ReplacedBy(at, WildcardFile)
            ELSE NodeAt(fst, at) = NodeAt(fp.before, at)

(* two File nodes of F's name in different folders, one of them larger than F *)
C14_Witness ==
    /\ WildcardCall
    /\ WildcardFolder.m_resize
    /\ IOFile(WildcardFile.physicalName).size > 0
    /\ \E at, other \in FilePositions(fp.before, <<>>) :
          /\ Len(at) # Len(other)
          /\ NodeAt(fp.before, at).m_filename = WildcardFile.virtualName
          /\ NodeAt(fp.before, other).m_filename = WildcardFile.virtualName
          /\ NodeAt(fp.before, at).m_size > IOFile(WildcardFile.physicalName).size
          /\ ReplacedBy(at, WildcardFile)
          /\ ReplacedBy(other, WildcardFile)

(* no two children of one folder, and no two nodes of the root list, have    *)
(* the same filename                                                          *)
RECURSIVE UniqueSiblings(_)
UniqueSiblings(nodes) ==
    /\ \A i, j \in 1..Len(nodes) : i # j => nodes[i].m_filename # nodes[j].m_filename
    /\ \A i \in 1..Len(nodes) : nodes[i].is_file \/ UniqueSiblings(nodes[i].m_content)

(* C26: sibling names stay unique: a tree none of whose folders holds two     *)
(* children of one name has none after the resolutions, with or without       *)
(* create, and the File and Folder entry applications of a patch.             *)
C26_UniqueSiblings ==
    UniqueSiblings(fp.before) => UniqueSiblings(fst)

(* a File entry with create made a folder and a file in it; the entry after   *)
(* it, with create, asks for a file of the folder's name; the Folder entry,   *)
(* with create, made more nodes in the folder                                 *)
C26_Witness ==
    /\ fp.called
    /\ Len(fp.patch.m_file_patches) = 2
    /\ fp.patch.m_file_patches[1].m_create
    /\ fp.patch.m_file_patches[2].m_create
    /\ FindSeparator(fp.patch.m_file_patches[1].m_disc) = 2
    /\ fp.patch.m_file_patches[2].m_disc
         = SubSeq(fp.patch.m_file_patches[1].m_disc, 1, 1)
    /\ Len(fp.before) = 1
    /\ Len(fst) = 2
    /\ ~fst[2].is_file
    /\ Len(fst[2].m_content) = 3
    /\ fp.patch.m_folder_patches # <<>>

-----------------------------------------------------------------------------
(* SpecResolve: FindFileNodeInFST called again and again on one tree         *)

InitResolve ==
    /\ fst \in InitialTrees
    /\ fp = NotCalled
    /\ rs = NotResolved
    /\ OverlayUnused
    /\ MemoryUnused
    /\ FrameUnused
    /\ ParseUnused
    /\ SpeedHacksUnused
    /\ LineUnused

(* FindFileNodeInFST(path, &fst, create); rs.found keeps the node a call with *)
(* create=true returned for a path, rs.last the call and what it found there  *)
CallFindFileNodeInFST ==
    /\ \E path \in ResolvePaths, create \in BOOLEAN :
          LET r == FindFileNodeInFST(path, fst, create)
          IN  /\ fst' = r.fst
              /\ rs' = [found |-> IF create /\ r.node # nullptr
                                  THEN [rs.found EXCEPT ![path] = r.node]
                                  ELSE rs.found,
                        last |-> [called |-> TRUE, path |-> path, create |-> create,
                                  node |-> r.node, prior |-> rs.found[path], before |-> fst]]
    /\ UNCHANGED <<node, last, memory, mp, s_on_frame, s_on_frame_memory, mgmt, fr, fp, ps, s_speed_hacks, ln>>

NextResolve == CallFindFileNodeInFST

SpecResolve == InitResolve /\ [][NextResolve]_vars

(* C12: once a call with create=true has returned a node for a path, every    *)
(* later call with that path, whatever its create flag, returns that node     *)
(* and leaves the tree as it was.                                             *)
C12_ResolveIdempotent ==
    (rs.last.called /\ rs.last.prior # nullptr) =>
        /\ rs.last.node = rs.last.prior
        /\ fst = rs.last.before

(* a path with a folder in it, created by an earlier call and resolved again  *)
(* with create=false                                                          *)
C12_Witness ==
    /\ rs.last.called
    /\ rs.last.prior # nullptr
    /\ ~rs.last.create
    /\ rs.last.path = <<"n", "/", "a">>
    /\ Len(rs.last.node) = 2

-----------------------------------------------------------------------------
(* The frame pass against the management thread                              *)

InitFrame ==
    /\ s_on_frame \in OnFrameLists
    /\ s_on_frame_memory = Vector(<<>>, 0)
    /\ mgmt = ManagementIdle
    /\ fr = NoPass
    /\ memory = [a \in FrameAddresses |-> 0]
    /\ mp = MemoryIdle
    /\ OverlayUnused
    /\ FSTUnused
    /\ ResolveUnused
    /\ ParseUnused
    /\ SpeedHacksUnused
    /\ LineUnused

(* ApplyFramePatches is called with the guest in one of the states 'guests':  *)
(* the gate fails and it returns false, or it applies the on-frame patches    *)
(* and builds the span for ApplyMemoryPatches                                 *)
ApplyFramePatchesEnter(guests) ==
    /\ fr.pc = "running"
    /\ \E g \in guests :
          LET r == EnterFramePass(memory, s_on_frame, g)
          IN  /\ memory' = r.memory
              /\ IF r.gate
                 THEN \E span \in SpanOf(s_on_frame_memory) :
                         fr' = [NoPass EXCEPT !.pc = "memory", !.ppcState = g,
                                              !.before = memory,
                                              !.patches_applied = TRUE, !.writes = r.log,
                                              !.span = span]
                 ELSE fr' = [NoPass EXCEPT !.ret = "false", !.ppcState = g,
                                           !.before = memory, !.writes = r.log]
    /\ UNCHANGED <<node, last, mp, s_on_frame, s_on_frame_memory, mgmt, fst, fp, rs, ps, s_speed_hacks, ln>>

FrameEnter == ApplyFramePatchesEnter(GuestStates)

(* ApplyMemoryPatches takes the mutex and applies the indices of the span,    *)
(* then the Gecko and Action Replay handlers run and the call returns true    *)
FrameApplyMemoryPatches ==
    /\ fr.pc = "memory"
    /\ ~MutexHeldByManagement
    /\ \E indices \in SpanRead(fr.span, s_on_frame_memory) :
          fr' = [fr EXCEPT !.pc = "running", !.ret = "true",
                           !.memory_patches_applied = TRUE, !.applied = indices,
                           !.locked_registry = Elements(s_on_frame_memory),
                           !.locked_removed = mgmt.removed,
                           !.locked_kept = mgmt.kept,
                           !.gecko = TRUE, !.action_replay = TRUE]
    /\ UNCHANGED <<node, last, memory, mp, s_on_frame, s_on_frame_memory, mgmt, fst, fp, rs, ps, s_speed_hacks, ln>>

(* AddMemoryPatch(index) / RemoveMemoryPatch(index) take the mutex *)
ManagementLock ==
    /\ mgmt.pc = "idle"
    /\ \E op \in {"add", "remove"}, index \in Indices :
          /\ op = "add" => s_on_frame_memory.size < MaxRegistry
          /\ mgmt' = [mgmt EXCEPT !.pc = "locked", !.op = op, !.index = index]
    /\ UNCHANGED <<node, last, memory, mp, s_on_frame, s_on_frame_memory, fr, fst, fp, rs, ps, s_speed_hacks, ln>>

(* ... change the vector and release the mutex; a span built before a         *)
(* reallocation is left pointing into the freed buffer                        *)
ManagementMutate ==
    /\ mgmt.pc = "locked"
    /\ s_on_frame_memory' = AfterPending(s_on_frame_memory)
    /\ mgmt' = [mgmt EXCEPT !.pc = "idle", !.op = "none", !.index = 0,
                            !.removed = IF mgmt.op = "remove" THEN @ \cup {mgmt.index}
                                        ELSE @ \ {mgmt.index},
                            !.kept = IF mgmt.op = "remove" THEN @ \ {mgmt.index} ELSE @]
    /\ fr' = IF mgmt.op = "add" /\ Reallocates(s_on_frame_memory)
             THEN [fr EXCEPT !.span.buffer = IF @ = "current" THEN "freed"
                                             ELSE IF @ = "next" THEN "current" ELSE @]
             ELSE fr
    /\ UNCHANGED <<node, last, memory, mp, s_on_frame, fst, fp, rs, ps, s_speed_hacks, ln>>

NextFrame == FrameEnter \/ FrameApplyMemoryPatches \/ ManagementLock \/ ManagementMutate

SpecFrame == InitFrame /\ [][NextFrame]_vars

(* C9: a call made while the gate fails returns false and applies nothing; a  *)
(* call made while it holds applies the on-frame patches and the memory       *)
(* patches, runs both code handlers and returns true; no call that has        *)
(* returned did only part of this.                                            *)
C9_GateAllOrNothing ==
    (fr.pc = "running" /\ fr.ret # "none") =>
        IF fr.ppcState.msr_DR /\ fr.ppcState.msr_IR /\ IsStackSane(fr.ppcState)
        THEN /\ fr.ret = "true"
             /\ fr.patches_applied
             /\ [memory |-> memory, log |-> fr.writes]
                    = ApplyPatches([memory |-> fr.before, log |-> <<>>], s_on_frame)
             /\ fr.memory_patches_applied
             /\ fr.gecko
             /\ fr.action_replay
        ELSE /\ fr.ret = "false"
             /\ ~fr.patches_applied
             /\ fr.writes = <<>>
             /\ memory = fr.before
             /\ ~fr.memory_patches_applied
             /\ fr.applied = <<>>
             /\ ~fr.gecko
             /\ ~fr.action_replay

(* a refused call with work pending: an enabled unconditional on-frame patch  *)
(* and an active memory patch                                                 *)
C9_Witness ==
    /\ fr.pc = "running"
    /\ fr.ret = "false"
    /\ fr.ppcState.msr_DR
    /\ fr.ppcState.msr_IR
    /\ s_on_frame # <<>>
    /\ s_on_frame[1].enabled
    /\ ~s_on_frame[1].entries[1].conditional
    /\ s_on_frame_memory.size > 0

(* C10: the indices a frame pass applies are the registry's contents at an    *)
(* instant at which the pass holds the registry lock.                         *)
C10_SnapshotUnderLock ==
    (fr.pc = "running" /\ fr.ret = "true") => fr.applied = fr.locked_registry

(* C11: the registry of active memory-patch indices holds each index at most  *)
(* once, whatever AddMemoryPatch and RemoveMemoryPatch calls were made, and a *)
(* frame pass that applies the registry as it is under the lock applies each  *)
(* index at most once.                                                        *)
C11_RegistryIsSet ==
    LET registry == Elements(s_on_frame_memory)
    IN  /\ \A i, j \in 1..Len(registry) : i # j => registry[i] # registry[j]
        /\ (fr.pc = "running" /\ fr.ret = "true" /\ fr.applied = fr.locked_registry) =>
              \A i, j \in 1..Len(fr.applied) : i # j => fr.applied[i] # fr.applied[j]

(* C24: a frame pass that takes the registry lock after RemoveMemoryPatch(i)  *)
(* has returned, with no AddMemoryPatch(i) called since, does not apply i.    *)
C24_RemovedNotApplied ==
    (fr.pc = "running" /\ fr.ret = "true") =>
        \A k \in 1..Len(fr.applied) : fr.applied[k] \notin fr.locked_removed

-----------------------------------------------------------------------------
(* SpecOverlay *)

InitialNodes ==
    {FSTBuilderFile(0, <<>>)}
      \cup {FSTBuilderFile(n, <<BuilderContentSource(0, n, ContentVolume(0))>>) :
              n \in 1..MaxFileSize}
      \cup {FSTBuilderFile(n, <<BuilderContentSource(0, n - 1, ContentMemory(0)),
                                BuilderContentSource(n - 1, 1, ContentVolume(0))>>) :
              n \in {MaxFileSize} \ {1}}

InitOverlay ==
    /\ node \in InitialNodes
    /\ last = NoCall
    /\ MemoryUnused
    /\ FrameUnused
    /\ FSTUnused
    /\ ResolveUnused
    /\ ParseUnused
    /\ SpeedHacksUnused
    /\ LineUnused

CallApplyPatchToFile ==
    \E name \in ExternalNames, offset \in 0..MaxFileSize, length \in 0..MaxFileSize,
       resize \in BOOLEAN :
        /\ offset + (IF length = 0 THEN IOFile(name).size ELSE length) <= MaxFileSize
        /\ node' = ApplyPatchToFile(node, name, offset, length, resize)
        /\ last' = [op |-> "ApplyPatchToFile", old_size |-> node.m_size, name |-> name,
                    offset |-> offset, length |-> length, resize |-> resize]
        /\ UNCHANGED <<memory, mp, s_on_frame, s_on_frame_memory, mgmt, fr, fst, fp, rs, ps, s_speed_hacks, ln>>

NextOverlay == CallApplyPatchToFile

SpecOverlay == InitOverlay /\ [][NextOverlay]_vars

-----------------------------------------------------------------------------
(* What supplies byte p of a file: the origin variant of the source that      *)
(* holds p and the offset inside that origin.                                 *)
NoOrigin == [type |-> "none", offset |-> 0, m_filename |-> Missing, m_byte |-> 0]

Origin(c, p) ==
    LET holding == {i \in 1..Len(c) : c[i].m_offset <= p /\ p < c[i].m_offset + c[i].m_size}
    IN  IF holding = {} THEN NoOrigin
        ELSE LET i == CHOOSE k \in holding : \A j \in holding : k <= j
                 src == c[i].m_source
             IN  [type |-> src.type,
                  offset |-> IF src.type = "ContentFixedByte" THEN 0
                             ELSE src.m_offset + (p - c[i].m_offset),
                  m_filename |-> src.m_filename,
                  m_byte |-> src.m_byte]

FileOrigin(filename, offset) ==
    [type |-> "ContentFile", offset |-> offset, m_filename |-> filename, m_byte |-> 0]

ZeroOrigin == [type |-> "ContentFixedByte", offset |-> 0, m_filename |-> Missing, m_byte |-> 0]

RECURSIVE TotalLength(_)
TotalLength(c) == IF c = <<>> THEN 0 ELSE Head(c).m_size + TotalLength(Tail(c))

(* the arguments of the call recorded in a value of 'last' *)
Opened(l) == l.op = "ApplyPatchToFile" /\ IOFile(l.name).ok
PatchSize(l) == IF l.length = 0 THEN IOFile(l.name).size ELSE l.length
PatchEnd(l) == l.offset + PatchSize(l)

-----------------------------------------------------------------------------
(* C1: after any sequence of ApplyPatchToFile calls the Content Source list   *)
(* of the node is sorted by offset, contiguous, non-overlapping, starts at 0  *)
(* and its total length equals node.size.                                     *)
C1_Coverage ==
    LET c == node.m_content
    IN  /\ \A i \in 1..Len(c), j \in 1..Len(c) :
              i < j => /\ c[i].m_offset <= c[j].m_offset
                       /\ c[i].m_offset + c[i].m_size <= c[j].m_offset
        /\ \A i \in 1..(Len(c) - 1) : c[i].m_offset + c[i].m_size = c[i + 1].m_offset
        /\ Len(c) > 0 => c[1].m_offset = 0
        /\ TotalLength(c) = node.m_size

(* a call that overwrote the middle of a volume source, splitting it in two   *)
C1_Witness ==
    /\ Opened(last)
    /\ last.offset > 0
    /\ PatchEnd(last) < last.old_size
    /\ \E i \in 1..Len(node.m_content) :
          /\ node.m_content[i].m_source.type = "ContentVolume"
          /\ node.m_content[i].m_source.m_offset > 0

(* C2: after a call with an openable external file every byte of              *)
(* [patch_offset, patch_end) comes from the external file at p - patch_offset *)
(* while that is below the external size and from FixedByte(0) above it, and  *)
(* a gap [old size, patch_offset) is FixedByte(0).                            *)
C2_PatchBytes ==
    Opened(last) =>
        /\ \A p \in last.offset..(PatchEnd(last) - 1) :
              Origin(node.m_content, p) =
                  IF p - last.offset < IOFile(last.name).size
                  THEN FileOrigin(last.name, p - last.offset)
                  ELSE ZeroOrigin
        /\ \A p \in last.old_size..(last.offset - 1) :
              Origin(node.m_content, p) = ZeroOrigin

(* a padded patch over existing data: external bytes, then zero fill *)
C2_Witness ==
    /\ Opened(last)
    /\ last.offset < last.old_size
    /\ IOFile(last.name).size > 0
    /\ PatchSize(last) > IOFile(last.name).size

(* C3: a call changes no byte outside [patch_offset, patch_end): each such    *)
(* position that is in the file before and after has the same origin variant  *)
(* and the same offset inside that origin.                                    *)
C3_Frame ==
    [][Opened(last') =>
         \A p \in 0..(node.m_size - 1) :
            (p < node'.m_size /\ (p < last'.offset \/ p >= PatchEnd(last')))
               => Origin(node'.m_content, p) = Origin(node.m_content, p)]_vars

(* a patch strictly inside a volume source: a kept byte behind the patch is   *)
(* read from a split-off source                                               *)
C3_Witness ==
    /\ Opened(last)
    /\ last.offset > 0
    /\ PatchSize(last) > 0
    /\ PatchEnd(last) < node.m_size
    /\ \E i \in 1..Len(node.m_content) :
          /\ node.m_content[i].m_offset = PatchEnd(last)
          /\ node.m_content[i].m_size > 0
          /\ node.m_content[i].m_source.type \in {"ContentVolume", "u8ptr"}
          /\ node.m_content[i].m_source.m_offset > 0

(* C4: node.size is patch_end with resize, max(old size, patch_end) without;  *)
(* after a truncating call no source starts at or after patch_end.            *)
C4_TargetSize ==
    Opened(last) =>
        /\ node.m_size = IF last.resize THEN PatchEnd(last)
                         ELSE Max(last.old_size, PatchEnd(last))
        /\ (last.resize /\ PatchEnd(last) < last.old_size) =>
              \A i \in 1..Len(node.m_content) : node.m_content[i].m_offset < PatchEnd(last)

(* a truncating call *)
C4_Witness ==
    /\ Opened(last)
    /\ last.resize
    /\ PatchEnd(last) < last.old_size
    /\ PatchEnd(last) > 0

(* C5: a call whose external file does not open leaves the node as it was.    *)
C5_UnopenableNoOp ==
    [][(last'.op = "ApplyPatchToFile" /\ ~IOFile(last'.name).ok) => node' = node]_vars

(* such a call on a file that has content *)
C5_Witness ==
    /\ last.op = "ApplyPatchToFile"
    /\ ~IOFile(last.name).ok
    /\ Len(node.m_content) > 1
    /\ last.offset < node.m_size
    /\ last.resize

(* C25: after any ApplyPatchToFile call every Content Source of the node has  *)
(* a length greater than 0, whatever the external file's size, the patch      *)
(* length and the resize flag.                                                *)
C25_NoEmptySource ==
    \A i \in 1..Len(node.m_content) : node.m_content[i].m_size > 0

-----------------------------------------------------------------------------
(* SpecOrder: File entries for one file, in one patch or in patches applied  *)
(* one after the other                                                       *)

MaxEntries == 2      \* File entries applied to the file, over all patches

OrderTrees == {<<VolumeFile(<<"a">>, n)>> : n \in 1..MaxFileSize}

(* File entries for "a" that keep the file within MaxFileSize *)
OrderEntries ==
    {e \in [m_disc : {<<"a">>}, m_external : ExternalNames, m_resize : BOOLEAN,
            m_create : {FALSE}, m_offset : 0..MaxFileSize, m_length : 0..MaxFileSize] :
        e.m_offset + (IF e.m_length = 0 THEN IOFile(e.m_external).size ELSE e.m_length)
            <= MaxFileSize}

InitOrder ==
    /\ fst \in OrderTrees
    /\ fp = NotCalled
    /\ OverlayUnused
    /\ MemoryUnused
    /\ FrameUnused
    /\ ResolveUnused
    /\ ParseUnused
    /\ SpeedHacksUnused
    /\ LineUnused

(* ApplyPatchToFST with a patch of one or two File entries; fp.patch keeps    *)
(* the entries applied so far in their order, fp.before the tree before this  *)
(* call                                                                       *)
CallApplyPatchToFSTInOrder ==
    /\ Len(fp.patch.m_file_patches) < MaxEntries
    /\ \E files \in {<<e>> : e \in OrderEntries}
                      \cup (IF Len(fp.patch.m_file_patches) + 2 <= MaxEntries
                            THEN {<<e, f>> : e \in OrderEntries, f \in OrderEntries}
                            ELSE {}) :
          /\ fst' = ApplyPatchToFST([m_file_patches |-> files, m_folder_patches |-> <<>>], fst)
          /\ fp' = [called |-> TRUE,
                    patch |-> [m_file_patches |-> fp.patch.m_file_patches \o files,
                               m_folder_patches |-> <<>>],
                    before |-> fst, document |-> <<>>]
    /\ UNCHANGED <<node, last, memory, mp, s_on_frame, s_on_frame_memory, mgmt, fr, rs, ps, s_speed_hacks, ln>>

NextOrder == CallApplyPatchToFSTInOrder

SpecOrder == InitOrder /\ [][NextOrder]_vars

(* the bytes a File entry writes, and where byte p of them comes from *)
EntrySize(e) == IF e.m_length = 0 THEN IOFile(e.m_external).size ELSE e.m_length
EntryRange(e) ==
    IF IOFile(e.m_external).ok THEN e.m_offset..(e.m_offset + EntrySize(e) - 1) ELSE {}
EntryOrigin(e, p) ==
    IF p - e.m_offset < IOFile(e.m_external).size
    THEN FileOrigin(e.m_external, p - e.m_offset)
    ELSE ZeroOrigin

(* C15: when the entry applied last and an entry applied before it write      *)
(* overlapping byte ranges of the file, every byte of the overlap that is     *)
(* inside the file afterwards comes from the last entry's data.               *)
C15_LaterOverrides ==
    LET files == fp.patch.m_file_patches
        later == files[Len(files)]
    IN  Len(files) >= 2 =>
            \A i \in 1..(Len(files) - 1) :
                \A p \in EntryRange(files[i]) \cap EntryRange(later) :
                    p < fst[1].m_size => Origin(fst[1].m_content, p) = EntryOrigin(later, p)

(* two patches, the second overwriting a byte of the first with other data    *)
C15_Witness ==
    LET files == fp.patch.m_file_patches
    IN  /\ Len(files) = 2
        /\ \E i \in 1..Len(fp.before[1].m_content) :
              fp.before[1].m_content[i].m_source.type = "ContentFile"
        /\ \E p \in EntryRange(files[1]) \cap EntryRange(files[2]) :
              /\ p < fst[1].m_size
              /\ EntryOrigin(files[1], p) # EntryOrigin(files[2], p)
              /\ Origin(fst[1].m_content, p) = EntryOrigin(files[2], p)

-----------------------------------------------------------------------------
(* SpecParse: ParseString on documents that differ in their head, in their   *)
(* identity filter, in a string under substitution or in a byte string       *)

GoodId == <<"R", "S", "B", "E", "0", "1">>
GameIds ==
    {GoodId, <<"{", "$", "_", "E", "0", "1">>, <<"R", "S", "B", "E", "0">>,
     <<"R", "S", "B", "E", "0", "1", "2">>}

PatchNode(id, root, children) == [id |-> id, root |-> root, children |-> children]

OnePatch ==
    <<PatchNode(StringAttribute(<<"p">>), Absent,
                <<XmlNode("file", [NoAttributes EXCEPT !.disc = StringAttribute(<<"a">>)])>>)>>

HeadDocuments ==
    {Document(parses, Wiidisc(present, version, Absent, NoId, patches)) :
        parses \in BOOLEAN, present \in BOOLEAN,
        version \in {Absent, IntAttribute(0), IntAttribute(1), IntAttribute(2)},
        patches \in {<<>>, OnePatch}}

(* an attribute of the id element, or none *)
Optionally(name, values) == {<<>>} \cup {<<[name |-> name, value |-> v]>> : v \in values}

IdElements ==
    {[present |-> TRUE, attributes |-> game \o developer \o disc \o version \o other,
      regions |-> regions] :
        game \in Optionally("game", {StringAttribute(<<>>), StringAttribute(<<"R", "S", "B">>),
                                     StringAttribute(GoodId),
                                     StringAttribute(<<"R", "S", "X">>)}),
        developer \in Optionally("developer", {StringAttribute(<<"0", "1">>),
                                               StringAttribute(<<"0", "2">>)}),
        disc \in Optionally("disc", {IntAttribute(0), IntAttribute(1)}),
        version \in Optionally("version", {IntAttribute(0), IntAttribute(1)}),
        other \in Optionally("name", {StringAttribute(<<"x">>)}),
        regions \in UNION {[1..n -> {StringAttribute(<<"E">>), StringAttribute(<<"P">>),
                                     Absent}] : n \in 0..2}}

FilterDocuments ==
    {Document(TRUE, Wiidisc(TRUE, IntAttribute(1), Absent, id, OnePatch)) : id \in IdElements}

(* strings made of tokens and of pieces of tokens *)
Pieces ==
    {TokenGameId, TokenRegion, TokenMaker, <<"x">>, <<"{">>, <<"{", "$", "_">>,
     <<"_", "r", "e", "g", "i", "o", "n", "}">>}

RECURSIVE PieceStrings(_)
PieceStrings(n) ==
    IF n = 0 THEN {<<>>}
    ELSE LET shorter == PieceStrings(n - 1)
         IN  shorter \cup {sv \o piece : sv \in shorter, piece \in Pieces}

SubstitutionDocuments ==
    {Document(TRUE, Wiidisc(TRUE, IntAttribute(1), StringAttribute(sv), NoId, <<>>)) :
        sv \in PieceStrings(MaxPieces)}

HexChars == HexDigits \cup {"x", "g"}
HexStrings == UNION {[1..n -> HexChars] : n \in 0..MaxHexLen}

HexDocuments ==
    {Document(TRUE, Wiidisc(TRUE, IntAttribute(1), Absent, NoId,
                            <<PatchNode(Absent, Absent,
                                        <<XmlNode("memory",
                                                  [NoAttributes EXCEPT !.value = value])>>)>>)) :
        value \in {Absent} \cup {StringAttribute(sv) : sv \in HexStrings}}

Documents == HeadDocuments \cup FilterDocuments \cup SubstitutionDocuments \cup HexDocuments

InitParse ==
    /\ ps = NotParsed
    /\ OverlayUnused
    /\ MemoryUnused
    /\ FrameUnused
    /\ FSTUnused
    /\ ResolveUnused
    /\ SpeedHacksUnused
    /\ LineUnused

(* ParseString(xml, game_id, revision, disc_number), once *)
CallParseString ==
    /\ ~ps.called
    /\ \E xml \in Documents, game_id \in GameIds, revision \in 0..1, disc_number \in 0..1 :
          ps' = [called |-> TRUE, xml |-> xml, game_id |-> game_id, revision |-> revision,
                 disc_number |-> disc_number,
                 result |-> ParseString(xml, game_id, revision, disc_number)]
    /\ UNCHANGED <<node, last, memory, mp, s_on_frame, s_on_frame_memory, mgmt, fr, fst, fp, rs, s_speed_hacks, ln>>

NextParse == CallParseString

SpecParse == InitParse /\ [][NextParse]_vars

(* C16: ParseString returns no result, and so no partly filled Disc, when the *)
(* game identifier is not 6 characters long, when the document has no wiidisc *)
(* root, and when the root's version attribute is absent or is not 1.         *)
C16_HeadRejected ==
    (/\ ps.called
     /\ \/ Len(ps.game_id) # 6
        \/ ~ps.xml.wiidisc.present
        \/ ~ps.xml.wiidisc.version.present
        \/ ps.xml.wiidisc.version.as_int # 1)
        => ps.result = nullopt

(* a document with a patch in it, rejected for its version alone *)
C16_Witness ==
    /\ ps.called
    /\ Len(ps.game_id) = 6
    /\ ps.xml.parses
    /\ ps.xml.wiidisc.present
    /\ ps.xml.wiidisc.version = IntAttribute(2)
    /\ ps.xml.wiidisc.patches # <<>>
    /\ ps.result = nullopt

(* what the identity filter asks of one attribute *)
FilterAttributeMatches(a, game_id, revision, disc_number) ==
    /\ a.name = "game" =>
          /\ Len(a.value.as_string) <= 6
          /\ \A i \in 1..Len(a.value.as_string) : a.value.as_string[i] = game_id[i]
    /\ a.name = "developer" => a.value.as_string = <<game_id[5], game_id[6]>>
    /\ a.name = "disc" => a.value.as_int = disc_number
    /\ a.name = "version" => a.value.as_int = revision

(* C17: a document with a good head and an identity filter yields a Disc      *)
(* exactly when every attribute of the filter matches (game a prefix of the   *)
(* identifier, developer its characters 4-5, disc the disc number, version    *)
(* the revision, anything else ignored) and the region list is empty or holds *)
(* the identifier's character 3.                                              *)
C17_FilterDecides ==
    (/\ ps.called
     /\ Len(ps.game_id) = 6
     /\ ps.xml.parses
     /\ ps.xml.wiidisc.present
     /\ ps.xml.wiidisc.version = IntAttribute(1)
     /\ ps.xml.wiidisc.id.present)
        => (ps.result.has_value <=>
              /\ \A i \in 1..Len(ps.xml.wiidisc.id.attributes) :
                    FilterAttributeMatches(ps.xml.wiidisc.id.attributes[i], ps.game_id,
                                           ps.revision, ps.disc_number)
              /\ \/ ps.xml.wiidisc.id.regions = <<>>
                 \/ \E i \in 1..Len(ps.xml.wiidisc.id.regions) :
                       /\ ps.xml.wiidisc.id.regions[i].present
                       /\ ps.xml.wiidisc.id.regions[i].as_string = <<ps.game_id[4]>>)

(* a filter that matches in every attribute and is rejected for its regions   *)
C17_Witness ==
    /\ ps.called
    /\ ps.game_id = GoodId
    /\ ps.xml.wiidisc.id.present
    /\ Len(ps.xml.wiidisc.id.attributes) = 5
    /\ \A i \in 1..Len(ps.xml.wiidisc.id.attributes) :
          FilterAttributeMatches(ps.xml.wiidisc.id.attributes[i], ps.game_id, ps.revision,
                                 ps.disc_number)
    /\ ps.xml.wiidisc.id.regions = <<StringAttribute(<<"P">>), Absent>>
    /\ ~ps.result.has_value

(* the positions of a string at which a token stands, and the string after    *)
(* substitution: at such a position the token's replacement, nothing for the  *)
(* other characters of the token, any other character itself                  *)
TokenAt(sv, i) ==
    {t \in {TokenGameId, TokenRegion, TokenMaker} : StartsWith(Substr(sv, i - 1), t)}

InsideToken(sv, i) ==
    \E j \in 1..(i - 1) : \E t \in TokenAt(sv, j) : i < j + Len(t)

ReplacementOf(t, game_id) ==
    IF t = TokenGameId THEN <<game_id[1], game_id[2], game_id[3]>>
    ELSE IF t = TokenRegion THEN <<game_id[4]>>
    ELSE <<game_id[5], game_id[6]>>

RECURSIVE Substituted(_, _, _)
Substituted(sv, game_id, i) ==
    IF i > Len(sv) THEN <<>>
    ELSE (IF TokenAt(sv, i) # {} THEN ReplacementOf(CHOOSE t \in TokenAt(sv, i) : TRUE, game_id)
          ELSE IF InsideToken(sv, i) THEN <<>>
          ELSE <<sv[i]>>)
         \o Substituted(sv, game_id, i + 1)

(* C18: substitution replaces every {$__gameid}, {$__region} and {$__maker}   *)
(* of a string attribute by characters 0-2, 3 and 4-5 of the identifier,      *)
(* copies every other character, and does not substitute in what it inserted. *)
C18_SubstitutionOnce ==
    (ps.called /\ ps.result.has_value) =>
        ps.result.disc.m_root = Substituted(AsString(ps.xml.wiidisc.root), ps.game_id, 1)

(* an identifier whose first characters complete a token in the result *)
C18_Witness ==
    /\ ps.called
    /\ ps.result.has_value
    /\ ps.xml.wiidisc.root
         = StringAttribute(TokenGameId \o <<"_", "r", "e", "g", "i", "o", "n", "}">>)
    /\ ps.game_id = <<"{", "$", "_", "E", "0", "1">>
    /\ ps.result.disc.m_root = TokenRegion

(* the bytes of a byte string: none for an odd length or a pair that is not   *)
(* two hex digits, else one byte per pair of what follows a leading 0x        *)
HexBytes(sv) ==
    LET body == IF Len(sv) >= 2 /\ sv[1] = "0" /\ sv[2] = "x" THEN SubSeq(sv, 3, Len(sv))
                ELSE sv
        pairs == Len(body) \div 2
    IN  IF Len(sv) % 2 = 1 THEN <<>>
        ELSE IF \E i \in 1..Len(body) : body[i] \notin HexDigits THEN <<>>
        ELSE [i \in 1..pairs |->
                 16 * HexDigitValue(body[2 * i - 1]) + HexDigitValue(body[2 * i])]

(* the memory element of a document of HexDocuments, and the Memory entry     *)
(* ParseString made of it                                                     *)
HexDocument ==
    /\ ps.called
    /\ ps.result.has_value
    /\ Len(ps.xml.wiidisc.patches) = 1
    /\ Len(ps.xml.wiidisc.patches[1].children) = 1
    /\ ps.xml.wiidisc.patches[1].children[1].name = "memory"

(* C19: a byte-string attribute decodes to no bytes when its length is odd or *)
(* a pair of it is not valid hex, and otherwise, after a leading 0x is        *)
(* stripped, to one byte per pair, in order.                                  *)
C19_HexDecoding ==
    HexDocument =>
        ps.result.disc.m_patches[1].m_memory_patches[1].m_value
            = HexBytes(AsString(ps.xml.wiidisc.patches[1].children[1].attributes.value))

(* a good pair followed by a bad one decodes to nothing *)
C19_Witness ==
    /\ HexDocument
    /\ ps.xml.wiidisc.patches[1].children[1].attributes.value
         = StringAttribute(<<"1", "a", "g", "0">>)
    /\ ps.result.disc.m_patches[1].m_memory_patches[1].m_value = <<>>

-----------------------------------------------------------------------------
(* SpecDOL: ApplyPatchToDOL(patch, dol_node)                                 *)

MainDol == <<"m", "a", "i", "n", ".", "d", "o", "l">>

(* std::find_if over the File entries for m_disc == "main.dol", 0 for end() *)
FindMainDol(files) ==
    IF \E i \in 1..Len(files) : files[i].m_disc = MainDol
    THEN CHOOSE i \in 1..Len(files) :
            files[i].m_disc = MainDol /\ \A j \in 1..(i - 1) : files[j].m_disc # MainDol
    ELSE 0

(* ApplyPatchToDOL that applies the first File entry, whatever its path *)
ApplyPatchToDOLFirstEntry(patch, dol_node) ==
    IF patch.m_file_patches = <<>> THEN dol_node
    ELSE ApplyPatchToFile(dol_node, patch.m_file_patches[1].m_external,
                          patch.m_file_patches[1].m_offset, patch.m_file_patches[1].m_length,
                          patch.m_file_patches[1].m_resize)

ApplyPatchToDOL(patch, dol_node) ==
    LET files == patch.m_file_patches
        main_dol_patch == FindMainDol(files)
    IN  IF main_dol_patch # 0
        THEN ApplyPatchToFile(dol_node, files[main_dol_patch].m_external,
                              files[main_dol_patch].m_offset, files[main_dol_patch].m_length,
                              files[main_dol_patch].m_resize)
        ELSE dol_node

DolPaths == {MainDol, <<"/">> \o MainDol, <<"m", "a", "i", "n">>, <<"a">>}

DolFileEntries ==
    [m_disc : DolPaths, m_external : ExternalNames, m_resize : BOOLEAN, m_create : {FALSE},
     m_offset : 0..1, m_length : {0}]

(* patches of up to two File entries, with or without a Folder entry and a    *)
(* Memory entry for the same name                                             *)
DolPatches ==
    [m_file_patches : {<<>>} \cup {<<f>> : f \in DolFileEntries}
                        \cup {<<f, g>> : f \in DolFileEntries, g \in DolFileEntries},
     m_folder_patches : {<<>>, <<[m_disc |-> MainDol, m_external |-> "flat", m_resize |-> TRUE,
                                  m_create |-> TRUE, m_recursive |-> TRUE, m_length |-> 0]>>},
     m_memory_patches : {<<>>, <<[NoEntry EXCEPT !.m_value = <<1>>]>>}]

InitDOL ==
    /\ node \in InitialNodes
    /\ last = NoCall
    /\ fst = <<>>
    /\ fp = NotCalled
    /\ MemoryUnused
    /\ FrameUnused
    /\ ResolveUnused
    /\ ParseUnused
    /\ SpeedHacksUnused
    /\ LineUnused

(* ApplyPatchToDOL(patch, &node), once; fp keeps the patch and the node       *)
(* before the call                                                            *)
CallApplyPatchToDOL ==
    /\ ~fp.called
    /\ \E patch \in DolPatches :
          /\ node' = ApplyPatchToDOL(patch, node)
          /\ fp' = [NotCalled EXCEPT !.called = TRUE, !.patch = patch, !.before = node]
    /\ UNCHANGED <<last, memory, mp, s_on_frame, s_on_frame_memory, mgmt, fr, fst, rs, ps, s_speed_hacks, ln>>

NextDOL == CallApplyPatchToDOL

SpecDOL == InitDOL /\ [][NextDOL]_vars

(* the File entries of a patch whose target path is main.dol *)
MainDolEntries(patch) == SelectSeq(patch.m_file_patches, LAMBDA f : f.m_disc = MainDol)

(* C20: ApplyPatchToDOL leaves the node as it was when the patch has no File  *)
(* entry whose path is exactly main.dol, and otherwise gives the node what    *)
(* ApplyPatchToFile makes of it with such an entry, the first of them; the    *)
(* other File entries, the Folder entries and the Memory entries do nothing   *)
(* to it.                                                                     *)
C20_OnlyMainDol ==
    fp.called =>
        node = IF MainDolEntries(fp.patch) = <<>> THEN fp.before
               ELSE LET file == MainDolEntries(fp.patch)[1]
                    IN  ApplyPatchToFile(fp.before, file.m_external, file.m_offset,
                                         file.m_length, file.m_resize)

(* a main.dol entry behind another File entry, beside a Folder entry and a    *)
(* Memory entry, has changed the node                                         *)
C20_Witness ==
    /\ fp.called
    /\ Len(fp.patch.m_file_patches) = 2
    /\ fp.patch.m_file_patches[1].m_disc = <<"/">> \o MainDol
    /\ IOFile(fp.patch.m_file_patches[1].m_external).ok
    /\ fp.patch.m_file_patches[2].m_disc = MainDol
    /\ fp.patch.m_file_patches[1].m_offset # fp.patch.m_file_patches[2].m_offset
    /\ fp.patch.m_folder_patches # <<>>
    /\ fp.patch.m_memory_patches # <<>>
    /\ node # fp.before

-----------------------------------------------------------------------------
(* SpecFolder: a patch of one Folder entry, with or without a File entry,     *)
(* applied to a tree                                                          *)

FolderTrees ==
    {<<>>,
     <<VolumeFile(<<"a">>, 1)>>,
     <<FSTBuilderNode(<<"a">>, 0, FALSE, <<VolumeFile(<<"a">>, 2), VolumeFile(<<"c">>, 1)>>),
       VolumeFile(<<"c">>, 1),
       FSTBuilderNode(<<"d">>, 0, FALSE, <<VolumeFile(<<"a">>, 1)>>)>>,
     <<FSTBuilderNode(<<"d">>, 0, FALSE, <<VolumeFile(<<"d">>, 1), VolumeFile(<<"b">>, 2)>>)>>}

(* the file and folder children of a patch element, attributes read: a       *)
(* Folder element alone, or with a File element before or after it            *)
FolderElements ==
    {[name |-> "folder", entry |-> f] :
        f \in [m_disc : {<<>>, <<"d">>, <<"a">>, <<"/", "n">>},
               m_external : ExternalDirectories, m_resize : BOOLEAN,
               m_create : BOOLEAN, m_recursive : BOOLEAN, m_length : 0..1]}

FileElements ==
    {[name |-> "file", entry |-> f] :
        f \in [m_disc : {<<"d", "/", "b">>, <<"a">>}, m_external : ExternalNames,
               m_resize : BOOLEAN, m_create : BOOLEAN, m_offset : {0}, m_length : {0}]}

PatchDocuments ==
    {<<g>> : g \in FolderElements}
      \cup {<<f, g>> : f \in FileElements, g \in FolderElements}
      \cup {<<g, f>> : f \in FileElements, g \in FolderElements}

(* the loop over patch_node.children() in ParseString: each file element is   *)
(* appended to m_file_patches, each folder element to m_folder_patches        *)
RECURSIVE PatchOfChildren(_, _)
PatchOfChildren(children, patch) ==
    IF children = <<>> THEN patch
    ELSE PatchOfChildren(
             Tail(children),
             IF Head(children).name = "file"
             THEN [patch EXCEPT !.m_file_patches = Append(@, Head(children).entry)]
             ELSE IF Head(children).name = "folder"
             THEN [patch EXCEPT !.m_folder_patches = Append(@, Head(children).entry)]
             ELSE patch)

InitFolder ==
    /\ fst \in FolderTrees
    /\ fp = NotCalled
    /\ OverlayUnused
    /\ MemoryUnused
    /\ FrameUnused
    /\ ResolveUnused
    /\ ParseUnused
    /\ SpeedHacksUnused
    /\ LineUnused

(* a patch element is read and ApplyPatchToFST(patch, &fst) is called, once   *)
(* on a tree                                                                  *)
CallApplyFolderPatch ==
    /\ ~fp.called
    /\ \E document \in PatchDocuments :
          LET patch == PatchOfChildren(document, NoPatch)
          IN  /\ fst' = ApplyPatchToFST(patch, fst)
              /\ fp' = [called |-> TRUE, patch |-> patch, before |-> fst,
                        document |-> document]
    /\ UNCHANGED <<node, last, memory, mp, s_on_frame, s_on_frame_memory, mgmt, fr, rs, ps, s_speed_hacks, ln>>

NextFolder == CallApplyFolderPatch

SpecFolder == InitFolder /\ [][NextFolder]_vars

(* the Folder entry of the call and the files of its external directory *)
TheFolder == fp.patch.m_folder_patches[1]
TheExternalFiles ==
    ExternalFiles(ScanDirectoryTree(TheFolder.m_external, TheFolder.m_recursive).children)

(* a file node after the external files of the sequence 'files', each with    *)
(* offset 0 and the folder's length and resize                                *)
RECURSIVE Overlaid(_, _, _)
Overlaid(file_node, files, folder) ==
    IF files = <<>> THEN file_node
    ELSE Overlaid(ApplyPatchToFile(file_node, Head(files).physicalName, 0, folder.m_length,
                                   folder.m_resize),
                  Tail(files), folder)

(* the tree with every File node overlaid by the external files of its name,  *)
(* and nothing else changed                                                   *)
RECURSIVE OverlaidByName(_, _, _)
OverlaidByName(nodes, files, folder) ==
    [i \in 1..Len(nodes) |->
        IF nodes[i].is_file
        THEN LET r == Overlaid(FSTBuilderFile(nodes[i].m_size, nodes[i].m_content),
                               SelectSeq(files, LAMBDA f : f.virtualName = nodes[i].m_filename),
                               folder)
             IN  [nodes[i] EXCEPT !.m_size = r.m_size, !.m_content = r.m_content]
        ELSE [nodes[i] EXCEPT !.m_content = OverlaidByName(@, files, folder)]]

(* C22: a Folder entry with an empty disc path applies each external file to  *)
(* exactly the File nodes of the external file's name, at any depth, with     *)
(* offset 0, the folder's length and the folder's resize; Folder nodes and    *)
(* nodes of other names stay as they were and no node is added, whatever the  *)
(* create flag.                                                               *)
C22_WildcardByName ==
    (fp.called /\ fp.patch.m_file_patches = <<>> /\ TheFolder.m_disc = <<>>) =>
        fst = OverlaidByName(fp.before, TheExternalFiles, TheFolder)

(* an external file named like a Folder node and like two File nodes at       *)
(* different depths, and another that no node is named like, with create set  *)
C22_Witness ==
    /\ fp.called
    /\ fp.patch.m_file_patches = <<>>
    /\ TheFolder.m_disc = <<>>
    /\ TheFolder.m_create
    /\ TheFolder.m_length = 1
    /\ Len(TheExternalFiles) = 2
    /\ \E i \in 1..Len(fp.before) :
          /\ ~fp.before[i].is_file
          /\ fp.before[i].m_filename = TheExternalFiles[1].virtualName
          /\ ~fst[i].is_file
    /\ \E f \in 1..2 : \A at \in FilePositions(fp.before, <<>>) :
          NodeAt(fp.before, at).m_filename # TheExternalFiles[f].virtualName
    /\ Cardinality({at \in FilePositions(fp.before, <<>>) :
                      NodeAt(fst, at) # NodeAt(fp.before, at)}) = 2

(* the external files of a directory in the order they are visited, each     *)
(* with the disc path disc_path/R of its relative path R                      *)
RECURSIVE Targets(_, _)
Targets(children, disc_path) ==
    IF children = <<>> THEN <<>>
    ELSE LET child == Head(children)
             child_disc_path == disc_path \o <<"/">> \o child.virtualName
         IN  (IF child.isDirectory THEN Targets(child.children, child_disc_path)
              ELSE <<[path |-> child_disc_path, physicalName |-> child.physicalName]>>)
             \o Targets(Tail(children), disc_path)

TheTargets ==
    Targets(ScanDirectoryTree(TheFolder.m_external, TheFolder.m_recursive).children,
            TheFolder.m_disc)

(* the tree after the targets, one after the other: a target whose path       *)
(* yields no node leaves the tree as it is                                    *)
RECURSIVE OverlaidByPath(_, _, _)
OverlaidByPath(nodes, targets, folder) ==
    IF targets = <<>> THEN nodes
    ELSE LET r == FindFileNodeInFST(Head(targets).path, nodes, folder.m_create)
         IN  OverlaidByPath(IF r.node = nullptr THEN nodes
                            ELSE PatchNodeAt(r.fst, r.node, Head(targets).physicalName, 0,
                                             folder.m_length, folder.m_resize),
                            Tail(targets), folder)

(* the names and kinds of the nodes of a tree *)
RECURSIVE Shape(_)
Shape(nodes) ==
    [i \in 1..Len(nodes) |->
        [m_filename |-> nodes[i].m_filename, is_file |-> nodes[i].is_file,
         children |-> IF nodes[i].is_file THEN <<>> ELSE Shape(nodes[i].m_content)]]

(* C23: a Folder entry with a disc path applies each external file at         *)
(* relative path R to the node at disc/R with offset 0, the folder's length   *)
(* and the folder's resize; the node is created when absent only if create    *)
(* is set; an external file whose node cannot be resolved is passed over and  *)
(* the other external files are still applied.                                *)
C23_FolderByPath ==
    (fp.called /\ fp.patch.m_file_patches = <<>> /\ TheFolder.m_disc # <<>>) =>
        /\ fst = OverlaidByPath(fp.before, TheTargets, TheFolder)
        /\ ~TheFolder.m_create => Shape(fst) = Shape(fp.before)
        /\ TheFolder.m_create =>
              \A i \in 1..Len(TheTargets) :
                  FindFileNodeInFST(TheTargets[i].path, fp.before, TRUE).node # nullptr
                      => FindFileNodeInFST(TheTargets[i].path, fst, FALSE).node # nullptr

(* with create set, the first external file meets a node of the wrong kind,   *)
(* the second is applied to a node that was there and the tree gains no node  *)
C23_Witness ==
    /\ fp.called
    /\ fp.patch.m_file_patches = <<>>
    /\ TheFolder.m_disc # <<>>
    /\ TheFolder.m_create
    /\ Len(TheTargets) = 2
    /\ FindFileNodeInFST(TheTargets[1].path, fp.before, TRUE).node = nullptr
    /\ FindFileNodeInFST(TheTargets[2].path, fp.before, FALSE).node # nullptr
    /\ fst # fp.before
    /\ Shape(fst) = Shape(fp.before)

(* the File entry of the call, the node it was applied to and the position of *)
(* that node                                                                  *)
TheFile == fp.patch.m_file_patches[1]
TheFileNode == FindFileNodeInFST(TheFile.m_disc, fp.before, TheFile.m_create).node

(* the external files the Folder entry applies to the node at 'at' *)
FolderFilesAt(at) ==
    IF TheFolder.m_disc = <<>>
    THEN {TheExternalFiles[i].physicalName :
            i \in {i \in 1..Len(TheExternalFiles) :
                     TheExternalFiles[i].virtualName = NodeAt(fst, at).m_filename}}
    ELSE {TheTargets[i].physicalName :
            i \in {i \in 1..Len(TheTargets) :
                     FindFileNodeInFST(TheTargets[i].path, fst, FALSE).node = at}}

(* C27: within one ApplyPatchToFST call the File entries are applied before   *)
(* the Folder entries, each group in its list order, however the file and     *)
(* folder elements were ordered in the document; on the bytes a File entry    *)
(* and a Folder entry both write, the Folder entry's data remains.            *)
C27_FilesBeforeFolders ==
    (fp.called /\ fp.patch.m_file_patches # <<>>) =>
        /\ LET files == SelectSeq(fp.document, LAMBDA e : e.name = "file")
               folders == SelectSeq(fp.document, LAMBDA e : e.name = "folder")
           IN  /\ fp.patch.m_file_patches = [i \in 1..Len(files) |-> files[i].entry]
               /\ fp.patch.m_folder_patches = [i \in 1..Len(folders) |-> folders[i].entry]
        /\ (TheFileNode # nullptr /\ IOFile(TheFile.m_external).ok) =>
              \A name \in FolderFilesAt(TheFileNode) :
                  \A p \in 0..((IF TheFolder.m_length = 0 THEN IOFile(name).size
                                ELSE TheFolder.m_length) - 1) :
                      Origin(NodeAt(fst, TheFileNode).m_content, p)
                        = IF p < IOFile(name).size THEN FileOrigin(name, p) ELSE ZeroOrigin

(* the folder element comes first in the document; its entry and the File     *)
(* entry write the first byte of one node from different data, and the        *)
(* Folder entry's is there                                                    *)
C27_Witness ==
    /\ fp.called
    /\ Len(fp.document) = 2
    /\ fp.document[1].name = "folder"
    /\ TheFileNode # nullptr
    /\ IOFile(TheFile.m_external).size > 0
    /\ TheFolder.m_length = 1
    /\ \E name \in FolderFilesAt(TheFileNode) :
          /\ IOFile(name).size = 0
          /\ Origin(NodeAt(fst, TheFileNode).m_content, 0) = ZeroOrigin

-----------------------------------------------------------------------------
(* SpecShutdown: Shutdown and Reload on the host thread, AddMemoryPatch and   *)
(* RemoveMemoryPatch, and the frame passes                                    *)

(* the statics of PatchEngine.cpp *)
Statics(on_frame, on_frame_memory, speed_hacks) ==
    [s_on_frame |-> on_frame, s_on_frame_memory |-> on_frame_memory,
     s_speed_hacks |-> speed_hacks]

(* a Shutdown that clears every static *)
ShutdownEveryStatic(statics) ==
    Statics(<<>>, Vector(statics.s_on_frame_memory.cells, 0), {})

(* Shutdown(): s_on_frame.clear(); s_speed_hacks.clear() *)
Shutdown(statics) == [statics EXCEPT !.s_on_frame = <<>>, !.s_speed_hacks = {}]

(* what the game's ini files hold: the patches of the OnFrame section and the *)
(* keys of the Speedhacks section                                             *)
GameInis ==
    [patches : {<<>>, <<[enabled |-> TRUE,
                         entries |-> <<PatchEntry("byte", 0, 258, 0, FALSE)>>]>>},
     speedhacks : {{}, {[address |-> 0, cycles |-> 1]}}]

(* LoadPatches(): LoadPatchSection appends to s_on_frame, LoadSpeedhacks      *)
(* assigns s_speed_hacks[address]                                             *)
LoadPatches(statics, ini) ==
    [statics EXCEPT
        !.s_on_frame = @ \o ini.patches,
        !.s_speed_hacks = {h \in @ : \A n \in ini.speedhacks : n.address # h.address}
                             \cup ini.speedhacks]

(* Reload(): Shutdown(); LoadPatches() *)
Reload(statics, ini) == LoadPatches(Shutdown(statics), ini)

InitShutdown ==
    /\ \E ini \in GameInis :
          /\ s_on_frame = ini.patches
          /\ s_speed_hacks = ini.speedhacks
    /\ s_on_frame_memory = Vector(<<>>, 0)
    /\ mgmt = ManagementIdle
    /\ fr = NoPass
    /\ memory = [a \in FrameAddresses |-> 0]
    /\ mp = MemoryIdle
    /\ OverlayUnused
    /\ FSTUnused
    /\ ResolveUnused
    /\ ParseUnused
    /\ LineUnused

(* ApplyFramePatches is called, the guest sane or in an exception vector *)
FrameEnterAfterShutdown ==
    ApplyFramePatchesEnter({SaneGuest, [SaneGuest EXCEPT !.msr_DR = FALSE]})

(* the host thread calls Shutdown() *)
HostShutdown ==
    /\ mgmt.pc = "idle"
    /\ LET after == Shutdown(Statics(s_on_frame, s_on_frame_memory, s_speed_hacks))
       IN  /\ s_on_frame' = after.s_on_frame
           /\ s_on_frame_memory' = after.s_on_frame_memory
           /\ s_speed_hacks' = after.s_speed_hacks
    /\ mgmt' = [mgmt EXCEPT !.cleared = TRUE,
                            !.kept = Indices \ (mgmt.removed \cup
                                       (Indices \ {s_on_frame_memory.cells[i] :
                                                     i \in 1..s_on_frame_memory.size}))]
    /\ UNCHANGED <<node, last, memory, mp, fr, fst, fp, rs, ps, ln>>

(* the host thread calls Reload() *)
HostReload ==
    /\ mgmt.pc = "idle"
    /\ \E ini \in GameInis :
          LET after == Reload(Statics(s_on_frame, s_on_frame_memory, s_speed_hacks), ini)
          IN  /\ s_on_frame' = after.s_on_frame
              /\ s_on_frame_memory' = after.s_on_frame_memory
              /\ s_speed_hacks' = after.s_speed_hacks
    /\ mgmt' = [mgmt EXCEPT !.cleared = FALSE,
                            !.kept = Indices \ (mgmt.removed \cup
                                       (Indices \ {s_on_frame_memory.cells[i] :
                                                     i \in 1..s_on_frame_memory.size}))]
    /\ UNCHANGED <<node, last, memory, mp, fr, fst, fp, rs, ps, ln>>

NextShutdown ==
    \/ HostShutdown
    \/ HostReload
    \/ FrameEnterAfterShutdown
    \/ FrameApplyMemoryPatches
    \/ ManagementLock
    \/ ManagementMutate

SpecShutdown == InitShutdown /\ [][NextShutdown]_vars

-----------------------------------------------------------------------------
(* SpecPatches: one call of ApplyFramePatches, the gate holding, on a memory  *)
(* and an on-frame list of one or two patches and up to two entries           *)

PatchEntries ==
    {PatchEntry(t, a, 258, c, cond) :
        t \in {"byte", "word", "dword"}, a \in {0, 1}, c \in {0, 257, 258}, cond \in BOOLEAN}

PatchLists ==
    LET entries == {e \in PatchEntries :
                      /\ e.address + Width(e.type) - 1 \in FrameAddresses
                      /\ ~e.conditional => e.comparand = 0}
    IN  {<<[enabled |-> en, entries |-> es]>> :
            en \in BOOLEAN, es \in {<<e>> : e \in entries}
                                     \cup {<<e, f>> : e \in entries, f \in entries}}
          \cup {<<[enabled |-> en1, entries |-> <<e>>], [enabled |-> en2, entries |-> <<f>>]>> :
                  en1 \in BOOLEAN, en2 \in BOOLEAN, e \in entries, f \in entries}

InitPatches ==
    /\ s_on_frame \in PatchLists
    /\ memory \in [FrameAddresses -> {0, 1}]
    /\ s_on_frame_memory = Vector(<<>>, 0)
    /\ mgmt = ManagementIdle
    /\ fr = NoPass
    /\ mp = MemoryIdle
    /\ OverlayUnused
    /\ FSTUnused
    /\ ResolveUnused
    /\ ParseUnused
    /\ SpeedHacksUnused
    /\ LineUnused

(* ApplyFramePatches is called once, the guest sane *)
FramePassOnce ==
    /\ fr.ret = "none"
    /\ ApplyFramePatchesEnter({SaneGuest})

NextPatches == FramePassOnce \/ FrameApplyMemoryPatches

SpecPatches == InitPatches /\ [][NextPatches]_vars

(* the entries of the patches in list order, each with its patch's enabled *)
RECURSIVE Flat(_)
Flat(patches) ==
    IF patches = <<>> THEN <<>>
    ELSE [i \in 1..Len(Head(patches).entries) |->
             [enabled |-> Head(patches).enabled, entry |-> Head(patches).entries[i]]]
         \o Flat(Tail(patches))

(* byte k, counted from the most significant, of the low 'width' bytes of v *)
ByteOf(v, width, k) == (v \div Power256(width - 1 - k)) % 256

(* the entry writes: its patch is enabled and it is unconditional or the      *)
(* bytes at its address are those of its comparand cut to its width           *)
Writing(mem, step) ==
    /\ step.enabled
    /\ \/ ~step.entry.conditional
       \/ \A k \in 0..(Width(step.entry.type) - 1) :
             mem[step.entry.address + k]
               = ByteOf(step.entry.comparand, Width(step.entry.type), k)

(* the memory and the entries written, each entry decided on the memory the   *)
(* entries before it left                                                     *)
RECURSIVE Decided(_, _, _)
Decided(mem, log, steps) ==
    IF steps = <<>> THEN [memory |-> mem, log |-> log]
    ELSE LET e == Head(steps).entry
             width == Width(e.type)
         IN  IF Writing(mem, Head(steps))
             THEN Decided([a \in DOMAIN mem |->
                             IF a \in e.address..(e.address + width - 1)
                             THEN ByteOf(e.value, width, a - e.address)
                             ELSE mem[a]],
                          Append(log, e), Tail(steps))
             ELSE Decided(mem, log, Tail(steps))

(* C29: in a frame pass no entry of a disabled patch writes; a conditional    *)
(* entry of an enabled patch writes its value only if what is read at its     *)
(* address at its width equals its comparand cut to that width, and an        *)
(* unconditional one always writes; the entries are decided one by one in     *)
(* list order, each on the memory the entries before it left.                 *)
C29_EntriesDecidedInOrder ==
    fr.patches_applied =>
        [memory |-> memory, log |-> fr.writes] = Decided(fr.before, <<>>, Flat(s_on_frame))

(* a conditional byte entry with a comparand above 255 that did not hold on   *)
(* the memory before the pass wrote, after the entry before it had written    *)
C29_Witness ==
    /\ fr.patches_applied
    /\ Len(s_on_frame) = 1
    /\ Len(s_on_frame[1].entries) = 2
    /\ s_on_frame[1].entries[2].conditional
    /\ s_on_frame[1].entries[2].type = "byte"
    /\ s_on_frame[1].entries[2].comparand > 255
    /\ ~Writing(fr.before, [enabled |-> TRUE, entry |-> s_on_frame[1].entries[2]])
    /\ Len(fr.writes) = 2

-----------------------------------------------------------------------------
(* SpecLine: an entry is written and read back, or a line is read             *)

(* u32 values up to 0x7FFFFFFF *)
SerializedEntries ==
    {PatchEntry(t, a, v, c, cond) :
        t \in {"byte", "word", "dword"}, a \in {0, 11259375, 2147483647},
        v \in {0, 255, 305419896}, c \in {0, 154}, cond \in BOOLEAN}

(* lines of up to four fields, the first separator a colon or an equals sign  *)
LineFields ==
    {<<>>, <<"0", "x", "1">>, <<"7">>, <<"b", "y", "t", "e">>, <<"w", "o", "r", "d">>,
     <<"b", "i", "t">>}

RECURSIVE Join(_, _)
Join(fields, first) ==
    IF fields = <<>> THEN <<>>
    ELSE IF Len(fields) = 1 THEN Head(fields)
    ELSE Head(fields) \o <<first>> \o Join(Tail(fields), ":")

Lines ==
    {Join(fields, first) :
        fields \in UNION {[1..n -> LineFields] : n \in 0..4}, first \in {":", "="}}

InitLine ==
    /\ ln = NoLine
    /\ OverlayUnused
    /\ MemoryUnused
    /\ FrameUnused
    /\ FSTUnused
    /\ ResolveUnused
    /\ ParseUnused
    /\ SpeedHacksUnused

(* DeserializeLine(SerializeLine(entry)) *)
RoundTrip ==
    /\ ln.op = "none"
    /\ \E entry \in SerializedEntries :
          ln' = [op |-> "round trip", entry |-> entry, line |-> SerializeLine(entry),
                 result |-> DeserializeLine(SerializeLine(entry))]
    /\ UNCHANGED <<node, last, memory, mp, s_on_frame, s_on_frame_memory, mgmt, fr, fst, fp, rs, ps, s_speed_hacks>>

(* DeserializeLine(line) *)
ReadLine ==
    /\ ln.op = "none"
    /\ \E line \in Lines :
          ln' = [op |-> "line", entry |-> NoLine.entry, line |-> line,
                 result |-> DeserializeLine(line)]
    /\ UNCHANGED <<node, last, memory, mp, s_on_frame, s_on_frame_memory, mgmt, fr, fst, fp, rs, ps, s_speed_hacks>>

NextLine == RoundTrip \/ ReadLine

SpecLine == InitLine /\ [][NextLine]_vars

(* the fields of a line: what stands between the separators, the first        *)
(* equals sign being one                                                      *)
FieldsOf(line) ==
    SplitString(IF Find(line, "=") # 0 THEN [line EXCEPT ![Find(line, "=")] = ":"] ELSE line,
                ":")

(* C30: for an entry of type byte, word or dword, DeserializeLine of its      *)
(* SerializeLine gives an entry of the same address, type, value and          *)
(* conditional flag, and of the same comparand when it is conditional; a      *)
(* line of fewer than three fields, or whose second field is no type name,    *)
(* gives no entry.                                                            *)
C30_RoundTrip ==
    /\ ln.op = "round trip" =>
          /\ ln.result.has_value
          /\ ln.result.entry.address = ln.entry.address
          /\ ln.result.entry.type = ln.entry.type
          /\ ln.result.entry.value = ln.entry.value
          /\ ln.result.entry.conditional = ln.entry.conditional
          /\ ln.entry.conditional => ln.result.entry.comparand = ln.entry.comparand
    /\ (ln.op = "line"
          /\ \/ Len(FieldsOf(ln.line)) < 3
             \/ FieldsOf(ln.line)[2] \notin {<<"b", "y", "t", "e">>, <<"w", "o", "r", "d">>,
                                             <<"d", "w", "o", "r", "d">>})
          => ~ln.result.has_value

(* a conditional dword entry with the largest address and a comparand came    *)
(* back from its line                                                         *)
C30_Witness ==
    /\ ln.op = "round trip"
    /\ ln.entry.type = "dword"
    /\ ln.entry.conditional
    /\ ln.entry.address = 2147483647
    /\ ln.entry.value = 305419896
    /\ ln.entry.comparand = 154
    /\ ln.result.has_value
    /\ ln.result.entry = ln.entry
    /\ Len(ln.line) = 38

====
